---------------------------- MODULE Spec2Model ----------------------------
(***************************************************************************)
(* A model of the AccountingNews scoring core:                             *)
(*   backend/app/libs/priority_scorer.py  (PriorityScorer)                 *)
(*   backend/app/libs/content_filter.py   (TaxReformContentFilter)         *)
(*                                                                         *)
(* Text is modelled character by character.  A Python str is a sequence of *)
(* one-character values; a character is written as a TLA+ string.  ASCII   *)
(* characters stand for themselves.  An accented letter is written as the  *)
(* base letter followed by a mark, so that the file stays ASCII:           *)
(*      "a/" acute    "a!" grave    "a^" circumflex    "a~" tilde          *)
(*      "a:" diaeresis    "ao" a with ring    "c," c-cedilla    "n~"       *)
(* (likewise for e, i, o, u),                                              *)
(* and the same with a capital base letter for the capital letter.         *)
(*                                                                         *)
(* Python floats are IEEE-754 binary64 values.  They are modelled exactly: *)
(* a float is a pair (m, e) standing for m * 2^e with m <= 2^53, and every *)
(* operation rounds its exact result to nearest, ties to even.  Mantissas  *)
(* do not fit the model checker's integers, so they are kept as sequences  *)
(* of 15-bit limbs, least significant first.                               *)
(***************************************************************************)
EXTENDS Integers, Sequences, FiniteSets, TLC

(***************************************************************************)
(* Natural numbers of arbitrary size: sequences of limbs, base 2^15.       *)
(***************************************************************************)
LimbBase == 2^15

Pow2(k) == 2^k

RECURSIVE BigNorm(_)
BigNorm(a) ==
    IF Len(a) > 0 /\ a[Len(a)] = 0 THEN BigNorm(SubSeq(a, 1, Len(a) - 1)) ELSE a

RECURSIVE BigFromInt(_)
BigFromInt(n) ==
    IF n = 0 THEN << >> ELSE <<n % LimbBase>> \o BigFromInt(n \div LimbBase)

BigIsZero(a) == BigNorm(a) = << >>

BigLimb(a, i) == IF i <= Len(a) THEN a[i] ELSE 0

RECURSIVE BigAddFrom(_, _, _, _)
BigAddFrom(a, b, i, carry) ==
    IF i > Len(a) /\ i > Len(b)
    THEN (IF carry = 0 THEN << >> ELSE <<carry>>)
    ELSE LET s == BigLimb(a, i) + BigLimb(b, i) + carry
         IN  <<s % LimbBase>> \o BigAddFrom(a, b, i + 1, s \div LimbBase)

BigAdd(a, b) == BigNorm(BigAddFrom(a, b, 1, 0))

\* a * d for a limb-sized d (0 <= d < 2^15)
RECURSIVE BigMulSmallFrom(_, _, _, _)
BigMulSmallFrom(a, d, i, carry) ==
    IF i > Len(a)
    THEN (IF carry = 0 THEN << >> ELSE <<carry>>)
    ELSE LET p == a[i] * d + carry
         IN  <<p % LimbBase>> \o BigMulSmallFrom(a, d, i + 1, p \div LimbBase)

BigMulSmall(a, d) == BigNorm(BigMulSmallFrom(a, d, 1, 0))

Zeros(n) == [i \in 1..n |-> 0]

RECURSIVE BigMulFrom(_, _, _)
BigMulFrom(a, b, i) ==
    IF i > Len(b) THEN << >>
    ELSE BigAdd(Zeros(i - 1) \o BigMulSmall(a, b[i]), BigMulFrom(a, b, i + 1))

BigMul(a, b) == BigMulFrom(a, b, 1)

\* quotient and remainder of a by a limb-sized d > 0, from the top limb down
RECURSIVE BigDivSmallFrom(_, _, _, _)
BigDivSmallFrom(a, d, i, rem) ==
    IF i = 0 THEN [q |-> << >>, r |-> rem]
    ELSE LET cur  == rem * LimbBase + a[i]
             rest == BigDivSmallFrom(a, d, i - 1, cur % d)
         IN  [q |-> rest.q \o <<cur \div d>>, r |-> rest.r]

BigDivSmall(a, d) ==
    LET res == BigDivSmallFrom(a, d, Len(a), 0)
    IN  [q |-> BigNorm(res.q), r |-> res.r]

\* -1, 0, 1 as a < b, a = b, a > b
RECURSIVE BigCmpFrom(_, _, _)
BigCmpFrom(a, b, i) ==
    IF i = 0 THEN 0
    ELSE IF a[i] < b[i] THEN -1
    ELSE IF a[i] > b[i] THEN 1
    ELSE BigCmpFrom(a, b, i - 1)

BigCmp(a, b) ==
    LET x == BigNorm(a)
        y == BigNorm(b)
    IN  IF Len(x) < Len(y) THEN -1
        ELSE IF Len(x) > Len(y) THEN 1
        ELSE BigCmpFrom(x, y, Len(x))

RECURSIVE IntBitLen(_)
IntBitLen(n) == IF n = 0 THEN 0 ELSE 1 + IntBitLen(n \div 2)

BigBitLen(a) ==
    LET x == BigNorm(a)
    IN  IF Len(x) = 0 THEN 0 ELSE 15 * (Len(x) - 1) + IntBitLen(x[Len(x)])

\* a * 2^k and floor(a / 2^k)
BigShl(a, k) ==
    IF BigIsZero(a) THEN << >>
    ELSE Zeros(k \div 15) \o BigMulSmall(a, Pow2(k % 15))

BigShr(a, k) ==
    LET x == BigNorm(a)
        w == k \div 15
    IN  IF w >= Len(x) THEN << >>
        ELSE BigDivSmall(SubSeq(x, w + 1, Len(x)), Pow2(k % 15)).q

BigIsOdd(a) == Len(a) > 0 /\ a[1] % 2 = 1

(***************************************************************************)
(* binary64 arithmetic.  A float is [m |-> mantissa, e |-> exponent].      *)
(***************************************************************************)
MantissaBits == 53

\* The float nearest to (n + s) * 2^e, where 0 <= s < 1 and sticky says s > 0.
FRound(n, e, sticky) ==
    LET len == BigBitLen(n)
    IN  IF len <= MantissaBits
        THEN [m |-> BigNorm(n), e |-> e]   \* callers keep s = 0 in this case
        ELSE LET sh    == len - MantissaBits
                 q2    == BigShr(n, sh - 1)
                 q     == BigShr(q2, 1)
                 half  == BigIsOdd(q2)
                 below == sticky \/ BigCmp(BigShl(q2, sh - 1), n) # 0
                 up    == half /\ (below \/ BigIsOdd(q))
             IN  [m |-> IF up THEN BigAdd(q, <<1>>) ELSE q, e |-> e + sh]

FFromInt(n) == [m |-> BigFromInt(n), e |-> 0]

\* p / q for integers 0 <= p, 0 < q < 2^15: Python's int / int, and the value
\* of a decimal literal such as 0.95 (95 / 100), both correctly rounded.
FDivInt(p, q) ==
    LET guard == 2 * MantissaBits
        d     == BigDivSmall(BigShl(BigFromInt(p), guard), q)
    IN  FRound(d.q, 0 - guard, d.r # 0)

FMul(x, y) == FRound(BigMul(x.m, y.m), x.e + y.e, FALSE)

FAdd(x, y) ==
    IF BigIsZero(x.m) THEN y
    ELSE IF BigIsZero(y.m) THEN x
    ELSE LET e == IF x.e < y.e THEN x.e ELSE y.e
         IN  FRound(BigAdd(BigShl(x.m, x.e - e), BigShl(y.m, y.e - e)), e, FALSE)

\* x >= y
FGeq(x, y) ==
    LET e == IF x.e < y.e THEN x.e ELSE y.e
    IN  BigCmp(BigShl(x.m, x.e - e), BigShl(y.m, y.e - e)) >= 0

(***************************************************************************)
(* Characters and str methods.                                             *)
(***************************************************************************)
AsciiLower ==
    {"a","b","c","d","e","f","g","h","i","j","k","l","m",
     "n","o","p","q","r","s","t","u","v","w","x","y","z"}

Digits == {"0","1","2","3","4","5","6","7","8","9"}

\* the space alone
Whitespace_SpaceOnly == {" "}

Whitespace == {" ", "\n", "\t"}

UpperChars ==
    <<"A","B","C","D","E","F","G","H","I","J","K","L","M",
      "N","O","P","Q","R","S","T","U","V","W","X","Y","Z",
      "A/","A!","A^","A~","A:","E/","E!","E^","E:","I/","I!","I^","I:",
      "O/","O!","O^","O~","O:","U/","U!","U^","U:","C,","N~","Ao">>

LowerChars ==
    <<"a","b","c","d","e","f","g","h","i","j","k","l","m",
      "n","o","p","q","r","s","t","u","v","w","x","y","z",
      "a/","a!","a^","a~","a:","e/","e!","e^","e:","i/","i!","i^","i:",
      "o/","o!","o^","o~","o:","u/","u!","u^","u:","c,","n~","ao">>

UpperSet == {UpperChars[i] : i \in 1..Len(UpperChars)}

LowerOf == [c \in UpperSet |->
               LowerChars[CHOOSE i \in 1..Len(UpperChars) : UpperChars[i] = c]]

\* str.lower(), one character
LowerChar(c) == IF c \in UpperSet THEN LowerOf[c] ELSE c

\* str.lower()
Lower(s) == [i \in 1..Len(s) |-> LowerChar(s[i])]

\* needle in haystack
IsSubstr(needle, hay) ==
    \E i \in 0..(Len(hay) - Len(needle)) :
        \A j \in 1..Len(needle) : hay[i + j] = needle[j]

\* str.strip()
RECURSIVE LStrip(_)
LStrip(s) ==
    IF Len(s) > 0 /\ s[1] \in Whitespace THEN LStrip(Tail(s)) ELSE s

RECURSIVE RStrip(_)
RStrip(s) ==
    IF Len(s) > 0 /\ s[Len(s)] \in Whitespace
    THEN RStrip(SubSeq(s, 1, Len(s) - 1)) ELSE s

Strip(s) == LStrip(RStrip(s))

\* f"{a} {b} {c}"
Combine(a, b, c) == a \o <<" ">> \o b \o <<" ">> \o c

(***************************************************************************)
(* PriorityScorer: the tables.                                             *)
(***************************************************************************)
TAX_REFORM_KEYWORDS == <<
    [kw |-> <<"r","e","f","o","r","m","a"," ","t","r","i","b","u","t","a/","r","i","a">>, weight |-> 100],
    [kw |-> <<"r","e","f","o","r","m","a"," ","t","r","i","b","u","t","a","r","i","a">>, weight |-> 100],
    [kw |-> <<"i","b","s">>, weight |-> 95],
    [kw |-> <<"c","b","s">>, weight |-> 95],
    [kw |-> <<"i","m","p","o","s","t","o"," ","u/","n","i","c","o">>, weight |-> 90],
    [kw |-> <<"i","m","p","o","s","t","o"," ","u","n","i","c","o">>, weight |-> 90],
    [kw |-> <<"i","v","a"," ","b","r","a","s","i","l","e","i","r","o">>, weight |-> 90],
    [kw |-> <<"i","v","a">>, weight |-> 85],
    [kw |-> <<"p","e","c"," ","4","5">>, weight |-> 85],
    [kw |-> <<"p","e","c"," ","1","1","0">>, weight |-> 85],
    [kw |-> <<"e","m","e","n","d","a"," ","c","o","n","s","t","i","t","u","c","i","o","n","a","l">>, weight |-> 80],
    [kw |-> <<"p","r","o","p","o","s","t","a"," ","d","e"," ","e","m","e","n","d","a">>, weight |-> 80],
    [kw |-> <<"l","e","i"," ","c","o","m","p","l","e","m","e","n","t","a","r">>, weight |-> 75],
    [kw |-> <<"c","o","d","i","g","o"," ","t","r","i","b","u","t","a","r","i","o">>, weight |-> 75],
    [kw |-> <<"c","o/","d","i","g","o"," ","t","r","i","b","u","t","a/","r","i","o">>, weight |-> 75],
    [kw |-> <<"i","c","m","s">>, weight |-> 70],
    [kw |-> <<"i","s","s">>, weight |-> 70],
    [kw |-> <<"p","i","s">>, weight |-> 65],
    [kw |-> <<"c","o","f","i","n","s">>, weight |-> 65],
    [kw |-> <<"s","i","m","p","l","e","s"," ","n","a","c","i","o","n","a","l">>, weight |-> 60],
    [kw |-> <<"r","e","g","i","m","e"," ","t","r","i","b","u","t","a/","r","i","o">>, weight |-> 60],
    [kw |-> <<"r","e","g","i","m","e"," ","t","r","i","b","u","t","a","r","i","o">>, weight |-> 60],
    [kw |-> <<"t","r","i","b","u","t","a","c,","a~","o">>, weight |-> 55],
    [kw |-> <<"t","r","i","b","u","t","a","c","a","o">>, weight |-> 55],
    [kw |-> <<"a","r","r","e","c","a","d","a","c,","a~","o">>, weight |-> 55],
    [kw |-> <<"a","r","r","e","c","a","d","a","c","a","o">>, weight |-> 55],
    [kw |-> <<"i","m","p","o","s","t","o">>, weight |-> 40],
    [kw |-> <<"t","r","i","b","u","t","o">>, weight |-> 40],
    [kw |-> <<"r","e","c","e","i","t","a"," ","f","e","d","e","r","a","l">>, weight |-> 35],
    [kw |-> <<"m","i","n","i","s","t","e/","r","i","o"," ","d","a"," ","f","a","z","e","n","d","a">>, weight |-> 35],
    [kw |-> <<"m","i","n","i","s","t","e","r","i","o"," ","d","a"," ","f","a","z","e","n","d","a">>, weight |-> 35],
    [kw |-> <<"f","i","s","c","o">>, weight |-> 30],
    [kw |-> <<"c","o","n","t","r","i","b","u","i","n","t","e">>, weight |-> 25] >>

SOURCE_MULTIPLIERS == <<
    [key |-> <<"r","e","c","e","i","t","a"," ","f","e","d","e","r","a","l">>, hundredths |-> 100],
    [key |-> <<"m","i","n","i","s","t","e/","r","i","o"," ","d","a"," ","f","a","z","e","n","d","a">>, hundredths |-> 100],
    [key |-> <<"m","i","n","i","s","t","e","r","i","o"," ","d","a"," ","f","a","z","e","n","d","a">>, hundredths |-> 100],
    [key |-> <<"s","e","n","a","d","o"," ","f","e","d","e","r","a","l">>, hundredths |-> 95],
    [key |-> <<"c","a^","m","a","r","a"," ","d","o","s"," ","d","e","p","u","t","a","d","o","s">>, hundredths |-> 95],
    [key |-> <<"c","a","m","a","r","a"," ","d","o","s"," ","d","e","p","u","t","a","d","o","s">>, hundredths |-> 95],
    [key |-> <<"p","o","r","t","a","l"," ","d","a"," ","t","r","a","n","s","p","a","r","e^","n","c","i","a">>, hundredths |-> 85],
    [key |-> <<"p","o","r","t","a","l"," ","d","a"," ","t","r","a","n","s","p","a","r","e","n","c","i","a">>, hundredths |-> 85],
    [key |-> <<"g","o","v","e","r","n","o"," ","f","e","d","e","r","a","l">>, hundredths |-> 80],
    [key |-> <<"c","o","n","g","r","e","s","s","o"," ","n","a","c","i","o","n","a","l">>, hundredths |-> 90] >>

CATEGORIES == <<
    [name |-> "tax_reform", keywords |-> <<<<"r","e","f","o","r","m","a"," ","t","r","i","b","u","t","a/","r","i","a">>, <<"r","e","f","o","r","m","a"," ","t","r","i","b","u","t","a","r","i","a">>, <<"i","b","s">>, <<"c","b","s">>, <<"p","e","c"," ","4","5">>, <<"p","e","c"," ","1","1","0">>>>],
    [name |-> "legislation", keywords |-> <<<<"l","e","i">>, <<"e","m","e","n","d","a">>, <<"p","r","o","p","o","s","t","a">>, <<"p","r","o","j","e","t","o">>, <<"m","e","d","i","d","a"," ","p","r","o","v","i","s","o/","r","i","a">>, <<"m","e","d","i","d","a"," ","p","r","o","v","i","s","o","r","i","a">>>>],
    [name |-> "economy", keywords |-> <<<<"e","c","o","n","o","m","i","a">>, <<"p","i","b">>, <<"i","n","f","l","a","c,","a~","o">>, <<"i","n","f","l","a","c","a","o">>, <<"m","e","r","c","a","d","o">>, <<"i","n","v","e","s","t","i","m","e","n","t","o">>>>],
    [name |-> "regulation", keywords |-> <<<<"r","e","g","u","l","a","m","e","n","t","a","c,","a~","o">>, <<"r","e","g","u","l","a","m","e","n","t","a","c","a","o">>, <<"n","o","r","m","a">>, <<"i","n","s","t","r","u","c,","a~","o">>, <<"i","n","s","t","r","u","c","a","o">>, <<"p","o","r","t","a","r","i","a">>>>],
    [name |-> "general", keywords |-> <<>>] >>

(***************************************************************************)
(* PriorityScorer.calculate_relevance_score                                *)
(***************************************************************************)
\* the characters the first re.sub keeps: [a-z...] and \s
ScorerKept ==
    AsciiLower \cup Whitespace \cup
    {"a/","a!","a^","a~","e/","e!","e^","i/","i!","i^",
     "o/","o!","o^","o~","u/","u!","u^","c,"}

\* re.sub(r'[^a-z...\s]', ' ', s)
ReplaceSpecial(s) ==
    [i \in 1..Len(s) |-> IF s[i] \in ScorerKept THEN s[i] ELSE " "]

\* re.sub(r'\s+', ' ', s)
RECURSIVE CollapseSpaces(_)
CollapseSpaces(s) ==
    IF Len(s) = 0 THEN << >>
    ELSE IF s[1] \in Whitespace
         THEN <<" ">> \o CollapseSpaces(LStrip(s))
         ELSE <<s[1]>> \o CollapseSpaces(Tail(s))

ScorerFullText(title, description, content) ==
    Strip(CollapseSpaces(ReplaceSpecial(Lower(Combine(title, description, content)))))

\* the indices of the table entries whose keyword is in the text, in table order
RECURSIVE MatchedFrom(_, _)
MatchedFrom(text, i) ==
    IF i > Len(TAX_REFORM_KEYWORDS) THEN << >>
    ELSE (IF IsSubstr(TAX_REFORM_KEYWORDS[i].kw, text) THEN <<i>> ELSE << >>)
         \o MatchedFrom(text, i + 1)

\* matched_keywords after the first loop, as table indices
MatchedKeywords(title, description, content) ==
    MatchedFrom(ScorerFullText(title, description, content), 1)

RECURSIVE SumWeights(_, _)
SumWeights(matched, i) ==
    IF i > Len(matched) THEN 0
    ELSE TAX_REFORM_KEYWORDS[matched[i]].weight + SumWeights(matched, i + 1)

MultiMatchBonus == 5

TitleMatchBonus == 20

MaxScore == 100

\* the title bonus given to every matched keyword, in the title or not
TitleBonus_EveryMatch(matched, title_lower, i) ==
    IF i > Len(matched) THEN 0 ELSE TitleMatchBonus * (Len(matched) - i + 1)

RECURSIVE TitleBonus(_, _, _)
TitleBonus(matched, title_lower, i) ==
    IF i > Len(matched) THEN 0
    ELSE (IF IsSubstr(TAX_REFORM_KEYWORDS[matched[i]].kw, title_lower)
          THEN TitleMatchBonus ELSE 0)
         + TitleBonus(matched, title_lower, i + 1)

Min(a, b) == IF a < b THEN a ELSE b

Max(a, b) == IF a > b THEN a ELSE b

\* the score before the cap of the last line
RawRelevance(title, description, content) ==
    LET matched == MatchedKeywords(title, description, content)
        base    == SumWeights(matched, 1)
        multi   == IF Len(matched) > 1 THEN Len(matched) * MultiMatchBonus ELSE 0
    IN  base + multi + TitleBonus(matched, Lower(title), 1)

\* the cap left out
CapScore_NoCap(score) == score

CapScore(score) == Min(score, MaxScore)

calculate_relevance_score(title, description, content) ==
    CapScore(RawRelevance(title, description, content))

(***************************************************************************)
(* PriorityScorer.extract_keywords and categorize_content                  *)
(***************************************************************************)
RECURSIVE ExtractFrom(_, _)
ExtractFrom(text, i) ==
    IF i > Len(TAX_REFORM_KEYWORDS) THEN << >>
    ELSE (IF IsSubstr(TAX_REFORM_KEYWORDS[i].kw, text) THEN <<i>> ELSE << >>)
         \o ExtractFrom(text, i + 1)

extract_keywords(title, description, content) ==
    ExtractFrom(Lower(Combine(title, description, content)), 1)

AnyKeywordIn(keywords, text) ==
    \E k \in 1..Len(keywords) : IsSubstr(keywords[k], text)

\* the loop without its early return: the last matching category wins
RECURSIVE CategorizeFrom_LastWins(_, _)
CategorizeFrom_LastWins(text, i) ==
    IF i > Len(CATEGORIES) THEN "general"
    ELSE LET later == CategorizeFrom_LastWins(text, i + 1)
         IN  IF later # "general" THEN later
             ELSE IF AnyKeywordIn(CATEGORIES[i].keywords, text) THEN CATEGORIES[i].name
             ELSE "general"

RECURSIVE CategorizeFrom(_, _)
CategorizeFrom(text, i) ==
    IF i > Len(CATEGORIES) THEN "general"
    ELSE IF CATEGORIES[i].name = "general" THEN CategorizeFrom(text, i + 1)
    ELSE IF AnyKeywordIn(CATEGORIES[i].keywords, text) THEN CATEGORIES[i].name
    ELSE CategorizeFrom(text, i + 1)

categorize_content(title, description, content) ==
    CategorizeFrom(Lower(Combine(title, description, content)), 1)


(***************************************************************************)
(* Bounds of the model.                                                    *)
(***************************************************************************)
\* a title is at most this many title fragments, joined by single spaces
MaxTitleFrags == 2

\* instants are counted in ticks; this many ticks make a day
TicksPerDay == 2

\* the oldest pub_date is this many days before the current time
MaxAgeDays == 32

\* a batch is a list of at most this many items
MaxBatch == 3

\* a query given to sanitize_search_query has at most this many characters
MaxQueryLen == 3

\* a feed has at most this many entries
MaxEntries == 2

\* fetch_all_feeds is run at most this many times
MaxRuns == 2

\* user_bookmarks holds at most this many rows
MaxBookmarks == 3

(***************************************************************************)
(* PriorityScorer.calculate_priority                                       *)
(***************************************************************************)
\* None, and a value that is present, where a value is optional
None == << >>

Some(x) == <<x>>

Get(o) == o[1]

\* None where a str is optional: a str holds characters only, and this is none
NoneStr == <<"<None>">>

\* the loop without its break: the last matching entry wins
RECURSIVE FirstSourceFrom_NoBreak(_, _)
FirstSourceFrom_NoBreak(source_lower, i) ==
    IF i > Len(SOURCE_MULTIPLIERS) THEN 0
    ELSE LET later == FirstSourceFrom_NoBreak(source_lower, i + 1)
         IN  IF later # 0 THEN later
             ELSE IF IsSubstr(SOURCE_MULTIPLIERS[i].key, source_lower) THEN i
             ELSE 0

\* the index of the first SOURCE_MULTIPLIERS entry, in table order, whose key
\* is in source_lower; 0 when the loop ends without a break
RECURSIVE FirstSourceFrom(_, _)
FirstSourceFrom(source_lower, i) ==
    IF i > Len(SOURCE_MULTIPLIERS) THEN 0
    ELSE IF IsSubstr(SOURCE_MULTIPLIERS[i].key, source_lower) THEN i
    ELSE FirstSourceFrom(source_lower, i + 1)

\* source_multiplier, in hundredths (the literal 0.95 is 95)
SourceMultiplier(source_name) ==
    LET i == FirstSourceFrom(Lower(source_name), 1)
    IN  IF i = 0 THEN 100 ELSE SOURCE_MULTIPLIERS[i].hundredths

\* the float a literal h/100 denotes
FHundredths(h) == FDivInt(h, 100)

\* the scale turned around: 0.7 + ((100 - source_credibility) / 100) * 0.6
CredibilityFactor_Inverted(source_credibility) ==
    FAdd(FDivInt(7, 10), FMul(FDivInt(100 - source_credibility, 100), FDivInt(6, 10)))

\* 0.7 + (source_credibility / 100) * 0.6
CredibilityFactor(source_credibility) ==
    FAdd(FDivInt(7, 10), FMul(FDivInt(source_credibility, 100), FDivInt(6, 10)))

\* the age rounded up to whole days instead of down
DaysOld_RoundedUp(now_t, pub) == (now_t - pub + TicksPerDay - 1) \div TicksPerDay

\* timedelta.days of now - pub_date, times counted in ticks
\* (\div rounds toward minus infinity, as timedelta.days does)
DaysOld(now_t, pub) == (now_t - pub) \div TicksPerDay

RecencyBonus(now_t, pub) ==
    IF pub = None THEN 0
    ELSE LET days_old == DaysOld(now_t, Get(pub))
         IN  IF days_old <= 1 THEN 10
             ELSE IF days_old <= 7 THEN 5
             ELSE IF days_old <= 30 THEN 2
             ELSE 0

\* (relevance * source_multiplier * credibility_factor) + recency_bonus
FinalScore(relevance, multiplier, credibility_factor, recency_bonus) ==
    FAdd(FMul(FMul(FFromInt(relevance), FHundredths(multiplier)), credibility_factor),
         FFromInt(recency_bonus))

HighThreshold == 80

MediumThreshold == 50

\* the 'medium' threshold set to 40
PriorityLevel_Medium40(final_score) ==
    IF FGeq(final_score, FFromInt(HighThreshold)) THEN "high"
    ELSE IF FGeq(final_score, FFromInt(40)) THEN "medium"
    ELSE "low"

PriorityLevel(final_score) ==
    IF FGeq(final_score, FFromInt(HighThreshold)) THEN "high"
    ELSE IF FGeq(final_score, FFromInt(MediumThreshold)) THEN "medium"
    ELSE "low"

\* the locals of calculate_priority at its return, and the value returned
calculate_priority(title, description, content, source_credibility, source_name, now_t, pub) ==
    LET relevance == calculate_relevance_score(title, description, content)
        mult      == SourceMultiplier(source_name)
        factor    == CredibilityFactor(source_credibility)
        bonus     == RecencyBonus(now_t, pub)
        final     == FinalScore(relevance, mult, factor, bonus)
    IN  [relevance          |-> relevance,
         source_multiplier  |-> mult,
         credibility_factor |-> factor,
         recency_bonus      |-> bonus,
         final_score        |-> final,
         priority           |-> PriorityLevel(final)]

(***************************************************************************)
(* TaxReformContentFilter                                                  *)
(***************************************************************************)
primary_keywords == <<
    <<"r","e","f","o","r","m","a"," ","t","r","i","b","u","t","a/","r","i","a">>,
    <<"r","e","f","o","r","m","a"," ","t","r","i","b","u","t","a","r","i","a">>,
    <<"i","b","s">>,
    <<"c","b","s">> >>

secondary_keywords == <<
    <<"i","m","p","o","s","t","o"," ","s","o","b","r","e"," ","b","e","n","s"," ","e"," ","s","e","r","v","i","c,","o","s">>,
    <<"c","o","n","t","r","i","b","u","i","c,","a~","o"," ","s","o","b","r","e"," ","b","e","n","s"," ","e"," ","s","e","r","v","i","c,","o","s">>,
    <<"s","i","s","t","e","m","a"," ","t","r","i","b","u","t","a/","r","i","o"," ","n","a","c","i","o","n","a","l">>,
    <<"c","o/","d","i","g","o"," ","t","r","i","b","u","t","a/","r","i","o"," ","n","a","c","i","o","n","a","l">>,
    <<"s","i","m","p","l","i","f","i","c","a","c,","a~","o"," ","t","r","i","b","u","t","a/","r","i","a">>,
    <<"u","n","i","f","i","c","a","c,","a~","o"," ","d","e"," ","i","m","p","o","s","t","o","s">>,
    <<"i","c","m","s">>,
    <<"i","s","s">>,
    <<"p","i","s">>,
    <<"c","o","f","i","n","s">>,
    <<"m","i","n","i","s","t","e/","r","i","o"," ","d","a"," ","f","a","z","e","n","d","a">>,
    <<"r","e","c","e","i","t","a"," ","f","e","d","e","r","a","l">>,
    <<"c","o","n","g","r","e","s","s","o"," ","n","a","c","i","o","n","a","l">>,
    <<"p","r","o","p","o","s","t","a"," ","d","e"," ","e","m","e","n","d","a"," ","c","o","n","s","t","i","t","u","c","i","o","n","a","l">>,
    <<"p","e","c">>,
    <<"e","m","e","n","d","a"," ","c","o","n","s","t","i","t","u","c","i","o","n","a","l">>,
    <<"t","r","i","b","u","t","a","c,","a~","o">>,
    <<"a","r","r","e","c","a","d","a","c,","a~","o">> >>

exclusion_keywords == <<
    <<"e","s","p","o","r","t","e">>,
    <<"f","u","t","e","b","o","l">>,
    <<"m","u/","s","i","c","a">>,
    <<"e","n","t","r","e","t","e","n","i","m","e","n","t","o">>,
    <<"c","e","l","e","b","r","i","d","a","d","e">>,
    <<"n","o","v","e","l","a">>,
    <<"f","i","l","m","e">>,
    <<"s","h","o","w">>,
    <<"c","r","i","m","e">>,
    <<"a","c","i","d","e","n","t","e">>,
    <<"t","r","a^","n","s","i","t","o">>,
    <<"m","e","t","e","o","r","o","l","o","g","i","a">>,
    <<"t","e","m","p","o">>,
    <<"c","h","u","v","a">> >>

\* the six re.sub calls of normalize_text, one character
FoldAccent(c) ==
    IF c \in {"a!","a/","a^","a~","a:","ao"} THEN "a"
    ELSE IF c \in {"e!","e/","e^","e:"} THEN "e"
    ELSE IF c \in {"i!","i/","i^","i:"} THEN "i"
    ELSE IF c \in {"o!","o/","o^","o~","o:"} THEN "o"
    ELSE IF c \in {"u!","u/","u^","u:"} THEN "u"
    ELSE IF c = "c," THEN "c"
    ELSE c

normalize_text(text) ==
    IF Len(text) = 0 THEN << >>
    ELSE LET t == Strip(Lower(text))
         IN  [i \in 1..Len(t) |-> FoldAccent(t[i])]

\* \w of a str pattern: letters, digits and the underscore
WordChars ==
    AsciiLower \cup Digits \cup UpperSet \cup {"_"}
    \cup {LowerChars[i] : i \in 1..Len(LowerChars)}

IsWordAt(text, i) == i >= 1 /\ i <= Len(text) /\ text[i] \in WordChars

\* \b between text[i - 1] and text[i]
WordBoundary(text, i) == IsWordAt(text, i - 1) # IsWordAt(text, i)

\* the pattern \b keyword \b matches text at position i
MatchesAt(keyword, text, i) ==
    /\ i + Len(keyword) - 1 <= Len(text)
    /\ \A j \in 1..Len(keyword) : text[i + j - 1] = keyword[j]
    /\ WordBoundary(text, i)
    /\ WordBoundary(text, i + Len(keyword))

\* len(re.findall(pattern, text)): non-overlapping matches, left to right
RECURSIVE FindAllCount(_, _, _)
FindAllCount(keyword, text, i) ==
    IF i > Len(text) THEN 0
    ELSE IF MatchesAt(keyword, text, i)
         THEN 1 + FindAllCount(keyword, text, i + Len(keyword))
         ELSE FindAllCount(keyword, text, i + 1)

\* the dict count_keyword_matches returns, as the sequence of its items in
\* insertion order: [k |-> index of the keyword in keywords, count |-> count]
RECURSIVE CountFrom(_, _, _)
CountFrom(normalized_text, keywords, k) ==
    IF k > Len(keywords) THEN << >>
    ELSE LET count == FindAllCount(normalize_text(keywords[k]), normalized_text, 1)
         IN  (IF count > 0 THEN <<[k |-> k, count |-> count]>> ELSE << >>)
             \o CountFrom(normalized_text, keywords, k + 1)

count_keyword_matches(text, keywords) ==
    CountFrom(normalize_text(text), keywords, 1)

\* every matched keyword counted once, however often it occurs
SumCounts_PerKeyword(matches, points, i) == (Len(matches) - i + 1) * points

RECURSIVE SumCounts(_, _, _)
SumCounts(matches, points, i) ==
    IF i > Len(matches) THEN 0
    ELSE matches[i].count * points + SumCounts(matches, points, i + 1)

PrimaryPoints == 20

SecondaryPoints == 5

ExclusionPoints == 10

MultiPrimaryBonus == 15

\* TaxReformContentFilter.calculate_relevance_score
filter_relevance_score(primary_matches, secondary_matches, exclusion_matches) ==
    LET primary_score     == SumCounts(primary_matches, PrimaryPoints, 1)
        secondary_score   == SumCounts(secondary_matches, SecondaryPoints, 1)
        exclusion_penalty == SumCounts(exclusion_matches, ExclusionPoints, 1)
        bonus == IF Len(primary_matches) > 1 THEN MultiPrimaryBonus ELSE 0
        final_score == primary_score + bonus + secondary_score - exclusion_penalty
    IN  Max(0, Min(100, final_score))

MinScoreThreshold == 15

\* x or ''
OrEmpty(x) == IF x = NoneStr THEN << >> ELSE x

KeysOf(matches, keywords) == [i \in 1..Len(matches) |-> keywords[matches[i].k]]

\* the primary-keyword requirement left out
IsRelevant_ScoreOnly(has_primary_keyword, relevance_score) ==
    relevance_score >= MinScoreThreshold

IsRelevant(has_primary_keyword, relevance_score) ==
    has_primary_keyword /\ relevance_score >= MinScoreThreshold

\* the score stated for every rejection
FilterReason_AlwaysScore(is_relevant, has_primary_keyword, relevance_score) ==
    IF ~is_relevant THEN <<"Low relevance score: ", relevance_score>> ELSE None

\* filter_reason of filter_content, for a text that is not blank
FilterReason(is_relevant, has_primary_keyword, relevance_score) ==
    IF ~is_relevant
    THEN (IF ~has_primary_keyword
          THEN <<"No tax reform keywords found">>
          ELSE IF relevance_score < MinScoreThreshold
          THEN <<"Low relevance score: ", relevance_score>>
          ELSE None)
    ELSE None

\* the FilterResult filter_content returns
filter_content(title, description, content) ==
    LET full_text == Combine(OrEmpty(title), OrEmpty(description), OrEmpty(content))
    IN  IF Len(Strip(full_text)) = 0
        THEN [is_relevant      |-> FALSE,
              relevance_score  |-> 0,
              matched_keywords |-> << >>,
              filter_reason    |-> <<"No content to analyze">>]
        ELSE LET primary_matches   == count_keyword_matches(full_text, primary_keywords)
                 secondary_matches == count_keyword_matches(full_text, secondary_keywords)
                 exclusion_matches == count_keyword_matches(full_text, exclusion_keywords)
                 relevance_score   ==
                     filter_relevance_score(primary_matches, secondary_matches,
                                            exclusion_matches)
                 has_primary_keyword == Len(primary_matches) > 0
                 is_relevant == IsRelevant(has_primary_keyword, relevance_score)
             IN  [is_relevant      |-> is_relevant,
                  relevance_score  |-> relevance_score,
                  matched_keywords |-> KeysOf(primary_matches, primary_keywords)
                                       \o KeysOf(secondary_matches, secondary_keywords),
                  filter_reason    |->
                      FilterReason(is_relevant, has_primary_keyword, relevance_score)]


(***************************************************************************)
(* The batch functions.  A dict is a function from its keys; a list of     *)
(* dicts is a sequence (the heap of item objects, by position), and a list *)
(* that holds the same objects is a sequence of positions.                 *)
(***************************************************************************)
\* d.get(key, default)
DictGet(d, key, default) == IF key \in DOMAIN d THEN d[key] ELSE default

\* d[key] = value
DictSet(d, key, value) ==
    [k \in (DOMAIN d) \cup {key} |-> IF k = key THEN value ELSE d[k]]

\* x.get('relevance_score', 0) of the item at position ref
SortKey(heap, ref) == DictGet(heap[ref], "relevance_score", 0)

\* an item put before the items of equal key
InsertDesc_BeforeEqual(heap, sorted, ref) ==
    LET before == { p \in 1..Len(sorted) : SortKey(heap, sorted[p]) > SortKey(heap, ref) }
        n      == Cardinality(before)
    IN  SubSeq(sorted, 1, n) \o <<ref>> \o SubSeq(sorted, n + 1, Len(sorted))

\* one item put in its place in a list sorted by descending key: after the
\* items of greater or equal key (the sort is stable, and reverse=True keeps
\* the original order of items of equal key)
InsertDesc(heap, sorted, ref) ==
    LET before == { p \in 1..Len(sorted) : SortKey(heap, sorted[p]) >= SortKey(heap, ref) }
        n      == Cardinality(before)
    IN  SubSeq(sorted, 1, n) \o <<ref>> \o SubSeq(sorted, n + 1, Len(sorted))

\* filtered_items.sort(key=lambda x: x.get('relevance_score', 0), reverse=True)
RECURSIVE SortDescFrom(_, _, _, _)
SortDescFrom(heap, refs, sorted, i) ==
    IF i > Len(refs) THEN sorted
    ELSE SortDescFrom(heap, refs, InsertDesc(heap, sorted, refs[i]), i + 1)

\* every item kept, relevant or not
Keeps_All(filter_result) == TRUE

\* if filter_result.is_relevant
Keeps(filter_result) == filter_result.is_relevant

\* the loop of filter_items_list from item i on: the heap with the kept
\* items updated in place, and the positions of the kept items
RECURSIVE FilterLoop(_, _, _)
FilterLoop(heap, filtered_items, i) ==
    IF i > Len(heap) THEN [heap |-> heap, filtered_items |-> filtered_items]
    ELSE LET item == heap[i]
             filter_result == filter_content(DictGet(item, "title", << >>),
                                             DictGet(item, "description", << >>),
                                             DictGet(item, "content", << >>))
         IN  IF Keeps(filter_result)
             THEN FilterLoop(
                      [heap EXCEPT ![i] =
                          DictSet(DictSet(item, "relevance_score",
                                          filter_result.relevance_score),
                                  "matched_keywords", filter_result.matched_keywords)],
                      Append(filtered_items, i), i + 1)
             ELSE FilterLoop(heap, filtered_items, i + 1)

\* tax_reform_filter.filter_items_list(items): the heap after the call and
\* the list returned
filter_items_list(heap) ==
    LET done == FilterLoop(heap, << >>, 1)
    IN  [heap     |-> done.heap,
         returned |-> SortDescFrom(done.heap, done.filtered_items, << >>, 1)]

\* f"{x}" of a str or None
FormatStr(x) == IF x = NoneStr THEN <<"N","o","n","e">> ELSE x

DefaultCredibility == 70

\* the dict score_batch appends for one item: a copy, updated
EnhancedItem(item, now_t) ==
    LET t == FormatStr(DictGet(item, "title", << >>))
        d == FormatStr(DictGet(item, "description", << >>))
        c == FormatStr(DictGet(item, "content", << >>))
        relevance_score == calculate_relevance_score(t, d, c)
        priority == calculate_priority(t, d, c,
                        DictGet(item, "source_credibility", DefaultCredibility),
                        DictGet(item, "source_name", << >>),
                        now_t, DictGet(item, "pub_date", None)).priority
        keywords == extract_keywords(t, d, c)
        item_category == categorize_content(t, d, c)
    IN  DictSet(DictSet(DictSet(DictSet(item,
            "relevance_score", relevance_score),
            "priority", priority),
            "keywords", keywords),
            "category", item_category)

\* PriorityScorer.score_batch(items): the list returned, of new dicts
score_batch(heap, now_t) == [i \in 1..Len(heap) |-> EnhancedItem(heap[i], now_t)]


(***************************************************************************)
(* Search: sanitize_search_query.                                          *)
(***************************************************************************)
\* the character class [<>()&|!]
SpecialChars == {"<", ">", "(", ")", "&", "|", "!"}

\* the special characters deleted, nothing put in their place
ReplaceQuerySpecial_Deleted(query) ==
    SelectSeq(query, LAMBDA c : c \notin SpecialChars)

\* re.sub(r'[<>()&|!]', ' ', query)
ReplaceQuerySpecial(query) ==
    [i \in 1..Len(query) |-> IF query[i] \in SpecialChars THEN " " ELSE query[i]]

\* the first word of s, which does not start with whitespace
RECURSIVE FirstWord(_)
FirstWord(s) ==
    IF Len(s) = 0 \/ s[1] \in Whitespace THEN << >>
    ELSE <<s[1]>> \o FirstWord(Tail(s))

\* s.split(): the words between runs of whitespace
RECURSIVE Split(_)
Split(s) ==
    LET t == LStrip(s)
    IN  IF Len(t) = 0 THEN << >>
        ELSE LET w == FirstWord(t)
             IN  <<w>> \o Split(SubSeq(t, Len(w) + 1, Len(t)))

\* ' & '.join(words)
RECURSIVE JoinAnd(_)
JoinAnd(words) ==
    IF Len(words) = 0 THEN << >>
    ELSE IF Len(words) = 1 THEN words[1]
    ELSE words[1] \o <<" ", "&", " ">> \o JoinAnd(Tail(words))

sanitize_search_query(query) ==
    LET replaced == ReplaceQuerySpecial(query)
        words == SelectSeq([i \in 1..Len(Split(replaced)) |-> Strip(Split(replaced)[i])],
                           LAMBDA word : Len(word) > 0)
    IN  IF Len(words) = 0 THEN << >> ELSE JoinAnd(words)


(***************************************************************************)
(* Search: search_content and the data store it queries.                   *)
(* A row of rss_feed_items is a record; keywords and pub_date may be NULL  *)
(* (None); lexemes stands for the tsvector of title, description and       *)
(* content, and rank for the row's ts_rank_cd.                             *)
(***************************************************************************)
\* the rows of rss_feed_items, by id
FeedItems == <<
    [id |-> 1, source_id |-> 1, category |-> "tax_reform", priority |-> "high",
     relevance_score |-> 90, keywords |-> Some({"ibs"}), pub_date |-> Some(6),
     lexemes |-> {<<"a">>, <<"b">>}, rank |-> 5],
    [id |-> 2, source_id |-> 1, category |-> "tax_reform", priority |-> "high",
     relevance_score |-> 80, keywords |-> None, pub_date |-> Some(5),
     lexemes |-> {<<"a">>}, rank |-> 4],
    [id |-> 3, source_id |-> 2, category |-> "legislation", priority |-> "medium",
     relevance_score |-> 60, keywords |-> Some({"ibs", "pis"}), pub_date |-> Some(4),
     lexemes |-> {<<"a">>, <<"b">>}, rank |-> 3],
    [id |-> 4, source_id |-> 1, category |-> "tax_reform", priority |-> "high",
     relevance_score |-> 40, keywords |-> Some({"pis"}), pub_date |-> None,
     lexemes |-> {<<"a">>}, rank |-> 2],
    [id |-> 5, source_id |-> 3, category |-> "general", priority |-> "low",
     relevance_score |-> 90, keywords |-> Some({}), pub_date |-> Some(7),
     lexemes |-> {<<"b">>}, rank |-> 1] >>

\* the rows of rss_sources: id and name
RssSources == { [id |-> 1, name |-> "Receita"], [id |-> 2, name |-> "Senado"] }

\* the rows of user_bookmarks; (user_id, feed_item_id) is unique
UserBookmarks ==
    { [user_id |-> "u1", feed_item_id |-> 1], [user_id |-> "u1", feed_item_id |-> 2],
      [user_id |-> "u2", feed_item_id |-> 3] }

\* the authenticated caller (user.sub)
Caller == "u1"

\* the operands of the & operators of a sanitized query
TsQueryTerms(sanitized_query) ==
    Split([i \in 1..Len(sanitized_query) |->
              IF sanitized_query[i] = "&" THEN " " ELSE sanitized_query[i]])

\* to_tsvector(...) @@ to_tsquery('portuguese', $1)
TextMatches(row, sanitized_query) ==
    \A k \in 1..Len(TsQueryTerms(sanitized_query)) :
        TsQueryTerms(sanitized_query)[k] \in row.lexemes

\* a date parameter compared with a timestamp: midnight of that day
Midnight(day) == day * TicksPerDay

\* LEFT JOIN user_bookmarks ub ... AND ub.user_id = $2: ub.id IS NOT NULL
IsBookmarked(row, user_id) ==
    \E ub \in UserBookmarks : ub.feed_item_id = row.id /\ ub.user_id = user_id

\* truth of a list-valued filter: given and not empty
ListGiven(x) == x # None /\ Get(x) # {}

\* the conjunction of filter_conditions, for one row; a comparison with NULL
\* is not true
FilterConditions(row, filters, user_id) ==
    /\ filters.date_from # None =>
          row.pub_date # None /\ Get(row.pub_date) >= Midnight(Get(filters.date_from))
    /\ filters.date_to # None =>
          row.pub_date # None /\ Get(row.pub_date) <= Midnight(Get(filters.date_to))
    /\ ListGiven(filters.source_ids) => row.source_id \in Get(filters.source_ids)
    /\ ListGiven(filters.categories) => row.category \in Get(filters.categories)
    /\ ListGiven(filters.priorities) => row.priority \in Get(filters.priorities)
    /\ filters.min_relevance # None => row.relevance_score >= Get(filters.min_relevance)
    /\ ListGiven(filters.keywords) =>
          row.keywords # None /\ Get(row.keywords) \cap Get(filters.keywords) # {}
    /\ ListGiven(filters.exclude_keywords) =>
          row.keywords # None /\ Get(row.keywords) \cap Get(filters.exclude_keywords) = {}
    /\ filters.bookmarked_only => IsBookmarked(row, user_id)

\* the ids of the rows base_query selects
SelectedIds(request, sanitized_query, user_id) ==
    { id \in 1..Len(FeedItems) :
        /\ TextMatches(FeedItems[id], sanitized_query)
        /\ request.filters # None =>
              FilterConditions(FeedItems[id], Get(request.filters), user_id) }

\* 'high' < 'low' < 'medium' as text
PriorityText(priority) ==
    IF priority = "high" THEN 1 ELSE IF priority = "low" THEN 2 ELSE 3

\* row a may come before row b under ORDER BY sort_column sort_direction
\* (NULL sorts as larger than every value)
MayPrecede(a, b, sort_by, sort_order) ==
    LET asc == Lower(sort_order) = <<"a","s","c">>
        ka  == IF sort_by = "date"
               THEN (IF a.pub_date = None THEN Midnight(MaxAgeDays + 2) ELSE Get(a.pub_date))
               ELSE IF sort_by = "priority" THEN PriorityText(a.priority)
               ELSE a.rank
        kb  == IF sort_by = "date"
               THEN (IF b.pub_date = None THEN Midnight(MaxAgeDays + 2) ELSE Get(b.pub_date))
               ELSE IF sort_by = "priority" THEN PriorityText(b.priority)
               ELSE b.rank
    IN  IF asc THEN ka <= kb ELSE ka >= kb

\* the orders in which the data store may return the selected rows
Orderings(ids, sort_by, sort_order) ==
    { s \in [1..Cardinality(ids) -> ids] :
        /\ \A p, q \in 1..Cardinality(ids) : p # q => s[p] # s[q]
        /\ \A p, q \in 1..Cardinality(ids) :
              p < q => MayPrecede(FeedItems[s[p]], FeedItems[s[q]], sort_by, sort_order) }

\* the first per_page rows, whatever the page
PageOf_NoOffset(rows, page, per_page) == SubSeq(rows, 1, Min(Len(rows), per_page))

\* LIMIT per_page OFFSET (page - 1) * per_page
PageOf(rows, page, per_page) ==
    SubSeq(rows, (page - 1) * per_page + 1, Min(Len(rows), page * per_page))

\* the SearchResult built from a row
SearchResult(id, user_id) ==
    [id |-> id, is_bookmarked |-> IsBookmarked(FeedItems[id], user_id)]

\* rs.name of the row's source; NULL when there is no such source
SourceName(row) ==
    IF \E rs \in RssSources : rs.id = row.source_id
    THEN Some((CHOOSE rs \in RssSources : rs.id = row.source_id).name)
    ELSE None

\* the grouping column of a facet query, for one row
FacetColumn(row, column) ==
    IF column = "category" THEN row.category
    ELSE IF column = "name" THEN SourceName(row)
    ELSE row.priority

\* the groups of one facet query of get_search_facets, as a set of
\* [name, count]
FacetGroups(sanitized_query, column) ==
    LET matching == { id \in 1..Len(FeedItems) : TextMatches(FeedItems[id], sanitized_query) }
    IN  { [name  |-> FacetColumn(FeedItems[id], column),
           count |-> Cardinality({ j \in matching :
                         FacetColumn(FeedItems[j], column) = FacetColumn(FeedItems[id], column) })] :
          id \in matching }

get_search_facets(sanitized_query) ==
    [categories |-> FacetGroups(sanitized_query, "category"),
     sources    |-> FacetGroups(sanitized_query, "name"),
     priorities |-> FacetGroups(sanitized_query, "priority")]

\* json.dumps(filters_dict) raises TypeError: a date is not JSON serializable
JsonDumpsRaises(request) ==
    /\ request.filters # None
    /\ Get(request.filters).date_from # None \/ Get(request.filters).date_to # None

ConnectQueryClose(operation) == <<"connect", operation, "close">>

\* search_content(request, user) when the data store answers `rows` to the
\* paginated query: the response, and the data-store operations executed
search_content(request, user_id, rows) ==
    LET sanitized_query == sanitize_search_query(request.query)
    IN  IF Len(sanitized_query) = 0
        THEN \* HTTPException(400) raised inside the try and caught by
             \* `except Exception`; the connection is not closed
             [response |-> [status_code |-> 500],
              db_log   |-> <<"connect">>]
        ELSE LET total_results == Cardinality(SelectedIds(request, sanitized_query, user_id))
                 queried == <<"connect", "count", "select", "close">>
                            \o ConnectQueryClose("search_analytics")
             IN  IF JsonDumpsRaises(request)
                 THEN [response |-> [status_code |-> 500],
                       db_log   |-> queried \o <<"connect", "close">>]
                 ELSE [response |->
                          [status_code   |-> 200,
                           results       |-> [i \in 1..Len(rows) |-> SearchResult(rows[i], user_id)],
                           total_results |-> total_results,
                           page          |-> request.page,
                           per_page      |-> request.per_page,
                           total_pages   |-> (total_results + request.per_page - 1)
                                                \div request.per_page,
                           facets        |-> get_search_facets(sanitized_query)],
                       db_log   |-> queried \o ConnectQueryClose("search_history")
                                            \o ConnectQueryClose("facets")]


(***************************************************************************)
(* Ingestion: fetch_all_feeds.  A feed entry is a record of what           *)
(* feedparser gives: id is '' when the entry has neither id nor guid;      *)
(* title, summary, content and published are None when the attribute is    *)
(* absent (description is feedparser's other name of summary).             *)
(***************************************************************************)
\* the current time (datetime.utcnow()), in ticks
Now == MaxAgeDays * TicksPerDay

\* the entries the feeds are made of: 'IBS' with a native guid; 'futebol'
\* with neither guid nor date; 'Reforma tributaria' under the guid of the
\* first, with a summary and a content
FeedEntries ==
    { [id |-> <<"g","1">>, title |-> Some(<<"I","B","S">>), summary |-> None,
       link |-> <<"l","1">>, content |-> None, published |-> Some(Now - TicksPerDay)],
      [id |-> << >>, title |-> Some(<<"f","u","t","e","b","o","l">>), summary |-> None,
       link |-> <<"l","2">>, content |-> None, published |-> None],
      [id |-> <<"g","1">>,
       title |-> Some(<<"R","e","f","o","r","m","a"," ","t","r","i","b","u","t","a/","r","i","a">>),
       summary |-> Some(<<"L","e","i"," ","d","o"," ","I","B","S">>),
       link |-> <<"l","3">>, content |-> Some(<<"P","I","S">>), published |-> Some(Now)] }

\* hashlib.md5(s.encode()).hexdigest(): equal digests for equal strings
Md5Hex(s) == <<"md5:">> \o s

\* guid = entry.id or entry.guid; if not guid: guid = md5(f"{link}{title}")
EntryGuid(entry, entry_title) ==
    IF Len(entry.id) > 0 THEN entry.id ELSE Md5Hex(entry.link \o entry_title)

\* title = getattr(entry, 'title', 'No title')
EntryTitle(entry) ==
    IF entry.title = None THEN <<"N","o"," ","t","i","t","l","e">> ELSE Get(entry.title)

\* description = getattr(entry, 'description', '') or getattr(entry, 'summary', '')
EntryDescription(entry) ==
    IF entry.summary = None THEN << >> ELSE Get(entry.summary)

\* content_text: the value of the first content element, else the summary
EntryContentText(entry) ==
    IF entry.content # None /\ Len(Get(entry.content)) > 0 THEN Get(entry.content)
    ELSE IF entry.summary # None THEN Get(entry.summary)
    ELSE << >>

\* pub_date: published_parsed as a datetime, else datetime.now
EntryPubDate(entry, now_t) ==
    IF entry.published # None THEN Get(entry.published) ELSE now_t

\* tax_keywords, each lowercased
tax_keywords ==
    << <<"r","e","f","o","r","m","a">>, <<"t","r","i","b","u","t","a","r">>,
       <<"i","m","p","o","s","t","o">>, <<"t","r","i","b","u","t","o">>,
       <<"i","b","s">>, <<"c","b","s">>, <<"p","i","s">>, <<"c","o","f","i","n","s">> >>

IngestDefaultScore == 50

IngestMaxScore == 90

IngestPointsPerKeyword == 10

IngestHighThreshold == 80

IngestMediumThreshold == 60

\* text_to_check = f"{title} {description} {content_text}".lower()
text_to_check(entry_title, entry_description, content_text) ==
    Lower(Combine(entry_title, entry_description, content_text))

\* keyword_matches = sum(1 for keyword in tax_keywords if keyword.lower() in text_to_check)
keyword_matches(text) ==
    Cardinality({ k \in 1..Len(tax_keywords) : IsSubstr(tax_keywords[k], text) })

\* the relevance_score fetch_all_feeds gives an entry
ingest_relevance_score(text) ==
    IF keyword_matches(text) > 0
    THEN Min(IngestMaxScore, IngestDefaultScore + keyword_matches(text) * IngestPointsPerKeyword)
    ELSE IngestDefaultScore

\* the priority fetch_all_feeds gives an entry
ingest_priority(relevance_score) ==
    IF relevance_score >= IngestHighThreshold THEN "high"
    ELSE IF relevance_score >= IngestMediumThreshold THEN "medium"
    ELSE "low"

\* the category fetch_all_feeds gives an entry
ingest_category(text) ==
    IF IsSubstr(<<"r","e","f","o","r","m","a">>, text) \/ IsSubstr(<<"t","r","i","b","u","t","a","r">>, text)
    THEN "tax_reform"
    ELSE IF \/ IsSubstr(<<"l","e","i">>, text)
            \/ IsSubstr(<<"r","e","g","u","l","a","m","e","n","t">>, text)
            \/ IsSubstr(<<"n","o","r","m","a">>, text)
    THEN "legislation"
    ELSE "general"

\* the relevance_score, priority and category fetch_all_feeds computes for
\* an entry
EntryScore(entry) ==
    LET text == text_to_check(EntryTitle(entry), EntryDescription(entry), EntryContentText(entry))
        relevance_score == ingest_relevance_score(text)
    IN  [priority        |-> ingest_priority(relevance_score),
         relevance_score |-> relevance_score,
         category        |-> ingest_category(text)]

\* EntryScore, tabulated over the entries of the feeds
EntryScores == [entry \in FeedEntries |-> EntryScore(entry)]

\* the row fetch_all_feeds inserts for an entry of a source
EntryRow(source_id, entry, now_t) ==
    [source_id       |-> source_id,
     title           |-> EntryTitle(entry),
     description     |-> EntryDescription(entry),
     link            |-> entry.link,
     pub_date        |-> EntryPubDate(entry, now_t),
     guid            |-> EntryGuid(entry, EntryTitle(entry)),
     content         |-> EntryContentText(entry),
     priority        |-> EntryScores[entry].priority,
     relevance_score |-> EntryScores[entry].relevance_score,
     category        |-> EntryScores[entry].category]

\* a stored row has the guid: the INSERT conflicts
GuidStored(rows, guid) == \E i \in 1..Len(rows) : rows[i].guid = guid

\* ON CONFLICT (guid) DO UPDATE: the incoming row takes the place of the
\* stored one
InsertRow_Overwrite(rows, row) ==
    IF GuidStored(rows, row.guid)
    THEN [rows |-> [i \in 1..Len(rows) |-> IF rows[i].guid = row.guid THEN row ELSE rows[i]],
          result |-> "INSERT 0 1"]
    ELSE [rows |-> Append(rows, row), result |-> "INSERT 0 1"]

\* INSERT INTO rss_feed_items ... ON CONFLICT (guid) DO NOTHING: the table
\* and the command tag
InsertRow(rows, row) ==
    IF GuidStored(rows, row.guid)
    THEN [rows |-> rows, result |-> "INSERT 0 0"]
    ELSE [rows |-> Append(rows, row), result |-> "INSERT 0 1"]

\* feed.entries[:20]
EntryLimit == 20

\* the loop over the entries of a feed: the table, the number of rows
\* added and the rows whose INSERT met a conflict
RECURSIVE ProcessEntries(_, _, _, _, _, _)
ProcessEntries(rows, added, conflicts, source_id, entries, now_t) ==
    IF Len(entries) = 0 THEN [rows |-> rows, added |-> added, conflicts |-> conflicts]
    ELSE LET row == EntryRow(source_id, Head(entries), now_t)
             inserted == InsertRow(rows, row)
         IN  IF inserted.result = "INSERT 0 1"
             THEN ProcessEntries(inserted.rows, added + 1, conflicts,
                                 source_id, Tail(entries), now_t)
             ELSE ProcessEntries(inserted.rows, added, conflicts \cup {row},
                                 source_id, Tail(entries), now_t)

\* what fetching a source comes to: a well-formed feed with its entries, a
\* feed that fails to parse (feed.bozo), a response whose status is not
\* 200, asyncio.TimeoutError, or another exception
FetchKinds == {"feed", "bozo", "http_error", "timeout", "exception"}

\* a successful fetch counted in success_count only
SourceAfter_SuccessOnly(source, kind) ==
    IF kind = "feed"
    THEN [source EXCEPT !.last_fetch_status = "success", !.success_count = @ + 1]
    ELSE IF kind = "bozo"
    THEN [source EXCEPT !.last_fetch_status = "processing"]
    ELSE IF kind = "timeout"
    THEN [source EXCEPT !.last_fetch_status = "timeout", !.fetch_count = @ + 1]
    ELSE [source EXCEPT !.last_fetch_status = "error", !.fetch_count = @ + 1]

\* the row of rss_sources after one pass of the loop: 'processing' first,
\* then the UPDATE of the branch taken (none when the feed fails to parse)
SourceAfter(source, kind) ==
    IF kind = "feed"
    THEN [source EXCEPT !.last_fetch_status = "success",
                        !.success_count = @ + 1, !.fetch_count = @ + 1]
    ELSE IF kind = "bozo"
    THEN [source EXCEPT !.last_fetch_status = "processing"]
    ELSE IF kind = "timeout"
    THEN [source EXCEPT !.last_fetch_status = "timeout", !.fetch_count = @ + 1]
    ELSE [source EXCEPT !.last_fetch_status = "error", !.fetch_count = @ + 1]

\* one pass of the loop over the sources
FetchSource(st, source_id, outcome, now_t) ==
    LET processed ==
            IF outcome.kind = "feed"
            THEN ProcessEntries(st.rows, 0, st.conflicts, source_id,
                     SubSeq(outcome.entries, 1, Min(Len(outcome.entries), EntryLimit)), now_t)
            ELSE [rows |-> st.rows, added |-> 0, conflicts |-> st.conflicts]
    IN  [sources           |-> [st.sources EXCEPT ![source_id] = SourceAfter(@, outcome.kind)],
         rows              |-> processed.rows,
         conflicts         |-> processed.conflicts,
         items_added       |-> st.items_added + processed.added,
         sources_processed |-> IF outcome.kind = "feed" THEN st.sources_processed + 1
                               ELSE st.sources_processed,
         errors            |-> IF outcome.kind = "feed" THEN st.errors
                               ELSE Append(st.errors, [source_id |-> source_id, kind |-> outcome.kind])]

\* the loop over the sources selected, in the order the SELECT gave them
RECURSIVE FetchLoop(_, _, _, _)
FetchLoop(st, order, outcomes, now_t) ==
    IF Len(order) = 0 THEN st
    ELSE FetchLoop(FetchSource(st, Head(order), outcomes[Head(order)], now_t),
                   Tail(order), outcomes, now_t)

\* fetch_all_feeds: the tables after the run, the rows it did not insert
\* and the FetchFeedsResponse
fetch_all_feeds(sources, rows, order, outcomes, now_t) ==
    LET st == FetchLoop([sources |-> sources, rows |-> rows, conflicts |-> {}, items_added |-> 0,
                         sources_processed |-> 0, errors |-> << >>],
                        order, outcomes, now_t)
    IN  [sources  |-> st.sources,
         rows     |-> st.rows,
         conflicts |-> st.conflicts,
         response |-> [success |-> TRUE, items_added |-> st.items_added,
                       sources_processed |-> st.sources_processed, errors |-> st.errors]]

(***************************************************************************)
(* Bookmarks: create_bookmark and list_bookmarks.  A row of user_bookmarks *)
(* is a record; its feed item is a row of BookmarkFeedItems, whose content *)
(* may be NULL (None).                                                     *)
(***************************************************************************)
\* the rows of rss_feed_items the bookmarks refer to, by id
BookmarkFeedItems ==
    << [title |-> <<"I","B","S">>, content |-> Some(<<"L","e","i">>)],
       [title |-> <<"L","e","i"," ","C","B","S">>, content |-> None] >>

\* the users: user.sub of the caller
Users == {"u1", "u2"}

\* 'if tag:', 'if search:': the parameter is given and not empty
ParameterGiven(parameter) == parameter # None /\ Len(Get(parameter)) > 0

\* text ILIKE '%pattern%', for a pattern without wildcards; NULL ILIKE ...
\* is not true
ILike(text, pattern) ==
    /\ text # None
    /\ IsSubstr(Lower(pattern), Lower(Get(text)))

\* $n = ANY(ub.tags)
TagCondition(row, tag) == Get(tag) \in row.tags

\* where_clause = " AND ".join(conditions), as SQL reads it: AND binds
\* tighter than OR, so the clause is
\* (ub.user_id = $1 AND $2 = ANY(ub.tags) AND fi.title ILIKE $3) OR fi.content ILIKE $3
WhereClause(row, tag, search, user_id) ==
    IF ParameterGiven(search)
    THEN \/ /\ row.user_id = user_id
            /\ ParameterGiven(tag) => TagCondition(row, tag)
            /\ ILike(Some(BookmarkFeedItems[row.feed_item_id].title), Get(search))
         \/ ILike(BookmarkFeedItems[row.feed_item_id].content, Get(search))
    ELSE /\ row.user_id = user_id
         /\ ParameterGiven(tag) => TagCondition(row, tag)

\* the positions of the rows of user_bookmarks the WHERE clause selects
SelectedBookmarks(table, tag, search, user_id) ==
    { i \in 1..Len(table) : WhereClause(table[i], tag, search, user_id) }

\* the position of the bookmark of a user for a feed item, 0 if there is none
BookmarkOf(table, user_id, feed_item_id) ==
    IF \E i \in 1..Len(table) : table[i].user_id = user_id /\ table[i].feed_item_id = feed_item_id
    THEN CHOOSE i \in 1..Len(table) : table[i].user_id = user_id /\ table[i].feed_item_id = feed_item_id
    ELSE 0

\* create_bookmark: the table after the call and the status of the response
create_bookmark(table, feed_item_id, tags, user_id) ==
    IF feed_item_id \notin 1..Len(BookmarkFeedItems)
    THEN [table |-> table, status_code |-> 404]
    ELSE LET at == BookmarkOf(table, user_id, feed_item_id)
         IN  IF at = 0
             THEN [table |-> Append(table, [id |-> Len(table) + 1, user_id |-> user_id,
                                            feed_item_id |-> feed_item_id, tags |-> tags]),
                   status_code |-> 200]
             ELSE [table |-> [table EXCEPT ![at].tags = tags], status_code |-> 200]

\* list_bookmarks: the BookmarkListResponse, for the order in which the
\* SELECT gave the rows
list_bookmarks(table, rows, tag, search, limit, offset, user_id) ==
    LET total_count == Cardinality(SelectedBookmarks(table, tag, search, user_id))
        page_rows == SubSeq(rows, offset + 1, Min(Len(rows), offset + limit))
    IN  [status_code |-> 200,
         bookmarks   |-> [i \in 1..Len(page_rows) |-> table[page_rows[i]]],
         total_count |-> total_count,
         page        |-> (offset \div limit) + 1,
         per_page    |-> limit,
         total_pages |-> (total_count + limit - 1) \div limit]

(***************************************************************************)
(* Access control: EmailAuthorization.                                     *)
(***************************************************************************)
AsciiUpper ==
    {"A","B","C","D","E","F","G","H","I","J","K","L","M",
     "N","O","P","Q","R","S","T","U","V","W","X","Y","Z"}

\* [a-zA-Z0-9._%+-]
LocalPartChars == AsciiLower \cup AsciiUpper \cup Digits \cup {".", "_", "%", "+", "-"}

\* [a-zA-Z0-9.-]
DomainChars == AsciiLower \cup AsciiUpper \cup Digits \cup {".", "-"}

\* [a-zA-Z]{2,}
MinTldLength == 2

\* re.match(r'^[a-zA-Z0-9.-]+\.[a-zA-Z]{2,}$', domain): some dot has at
\* least one character of the class before it and only letters, two or
\* more, after it
_is_valid_domain(domain) ==
    \E dot \in 2..Len(domain) :
        /\ domain[dot] = "."
        /\ \A i \in 1..(dot - 1) : domain[i] \in DomainChars
        /\ Len(domain) - dot >= MinTldLength
        /\ \A i \in (dot + 1)..Len(domain) : domain[i] \in AsciiLower \cup AsciiUpper

\* re.match(r'^[a-zA-Z0-9._%+-]+@[a-zA-Z0-9.-]+\.[a-zA-Z]{2,}$', email)
_is_valid_email(email) ==
    \E at \in 2..Len(email) :
        /\ email[at] = "@"
        /\ \A i \in 1..(at - 1) : email[i] \in LocalPartChars
        /\ _is_valid_domain(SubSeq(email, at + 1, Len(email)))

\* email.split('@')[1] if '@' in email, else ""
_extract_domain(email) ==
    IF \E i \in 1..Len(email) : email[i] = "@"
    THEN LET first == CHOOSE i \in 1..Len(email) :
                          email[i] = "@" /\ \A j \in 1..(i - 1) : email[j] # "@"
             rest == SubSeq(email, first + 1, Len(email))
         IN  IF \E i \in 1..Len(rest) : rest[i] = "@"
             THEN SubSeq(rest, 1, (CHOOSE i \in 1..Len(rest) :
                                       rest[i] = "@" /\ \A j \in 1..(i - 1) : rest[j] # "@") - 1)
             ELSE rest
    ELSE << >>

\* email.lower().strip()
NormalizeAddress(text) == Strip(Lower(text))

\* EmailAuthorization.is_email_authorized
is_email_authorized(emails, domains, email) ==
    IF Len(email) = 0 THEN FALSE
    ELSE IF ~_is_valid_email(NormalizeAddress(email)) THEN FALSE
    ELSE IF NormalizeAddress(email) \in emails THEN TRUE
    ELSE IF _extract_domain(NormalizeAddress(email)) \in domains THEN TRUE
    ELSE FALSE

\* EmailAuthorization.add_authorized_email: the set and the value returned
add_authorized_email(emails, email) ==
    IF Len(email) = 0 THEN [emails |-> emails, result |-> FALSE]
    ELSE IF ~_is_valid_email(NormalizeAddress(email)) THEN [emails |-> emails, result |-> FALSE]
    ELSE [emails |-> emails \cup {NormalizeAddress(email)}, result |-> TRUE]

\* the email reported as removed and left in the set
remove_authorized_email_Kept(emails, email) ==
    IF Len(email) = 0 THEN [emails |-> emails, result |-> FALSE]
    ELSE IF NormalizeAddress(email) \in emails
    THEN [emails |-> emails, result |-> TRUE]
    ELSE [emails |-> emails, result |-> FALSE]

\* EmailAuthorization.remove_authorized_email: the set and the value returned
remove_authorized_email(emails, email) ==
    IF Len(email) = 0 THEN [emails |-> emails, result |-> FALSE]
    ELSE IF NormalizeAddress(email) \in emails
    THEN [emails |-> emails \ {NormalizeAddress(email)}, result |-> TRUE]
    ELSE [emails |-> emails, result |-> FALSE]

\* EmailAuthorization.add_authorized_domain: the set and the value returned
add_authorized_domain(domains, domain) ==
    IF Len(domain) = 0 THEN [domains |-> domains, result |-> FALSE]
    ELSE IF ~_is_valid_domain(NormalizeAddress(domain)) THEN [domains |-> domains, result |-> FALSE]
    ELSE [domains |-> domains \cup {NormalizeAddress(domain)}, result |-> TRUE]

\* EmailAuthorization.remove_authorized_domain: the set and the value returned
remove_authorized_domain(domains, domain) ==
    IF Len(domain) = 0 THEN [domains |-> domains, result |-> FALSE]
    ELSE IF NormalizeAddress(domain) \in domains
    THEN [domains |-> domains \ {NormalizeAddress(domain)}, result |-> TRUE]
    ELSE [domains |-> domains, result |-> FALSE]

\* self.authorized_emails of a new EmailAuthorization
InitialEmails ==
    { <<"f","e","r","n","a","n","d","o","@","f","o","r","v","i","s","m","a","z","a","r","s",".","c","o","m">>,
      <<"f","e","r","n","a","n","d","o",".","x","a","v","i","e","r","@","f","o","r","v","i","s","m","a","z","a","r","s",".","c","o","m">> }

\* self.authorized_domains of a new EmailAuthorization
InitialDomains ==
    { <<"f","o","r","v","i","s","m","a","z","a","r","s",".","c","o","m">> }

(***************************************************************************)
(* The inputs the operations are called with.                              *)
(***************************************************************************)
\* "Reforma Tributaria" (with a-acute), "IBS", "imposto", "PEC 45",
\* "Reforma-Tributaria:" (with a-acute), "futebol"
TitleFragments ==
    { <<"R","e","f","o","r","m","a"," ","T","r","i","b","u","t","a/","r","i","a">>,
      <<"I","B","S">>,
      <<"i","m","p","o","s","t","o">>,
      <<"P","E","C"," ","4","5">>,
      <<"R","e","f","o","r","m","a","-","T","r","i","b","u","t","a/","r","i","a",":">>,
      <<"f","u","t","e","b","o","l">> }

\* " ".join(frags)
RECURSIVE JoinFrags(_)
JoinFrags(frags) ==
    IF Len(frags) = 0 THEN << >>
    ELSE IF Len(frags) = 1 THEN frags[1]
    ELSE frags[1] \o <<" ">> \o JoinFrags(Tail(frags))

Titles ==
    { JoinFrags(fs) : fs \in UNION { [1..n -> TitleFragments] : n \in 0..MaxTitleFrags } }

\* "", "simples nacional", "lei complementar", "unico" (with u-acute),
\* "economia e tributo", "ICMS, PIS e Cofins"
Descriptions ==
    { << >>,
      <<"s","i","m","p","l","e","s"," ","n","a","c","i","o","n","a","l">>,
      <<"l","e","i"," ","c","o","m","p","l","e","m","e","n","t","a","r">>,
      <<"u/","n","i","c","o">>,
      <<"e","c","o","n","o","m","i","a"," ","e"," ","t","r","i","b","u","t","o">>,
      <<"I","C","M","S",","," ","P","I","S"," ","e"," ","C","o","f","i","n","s">> }

\* "", "portaria do fisco", "comissao" (with a-tilde)
Contents ==
    { << >>,
      <<"p","o","r","t","a","r","i","a"," ","d","o"," ","f","i","s","c","o">>,
      <<"c","o","m","i","s","s","a~","o">> }

\* "", " ", " \t", "\n": texts that strip() empties
BlankTexts == { << >>, <<" ">>, <<" ","\t">>, <<"\n">> }

\* "Reforma Tributaria IBS CBS" (with a-acute), "IBS CBS PEC PEC",
\* "show show IBS", "PEC"
FilterTitleSamples ==
    { <<"R","e","f","o","r","m","a"," ","T","r","i","b","u","t","a/","r","i","a"," ",
        "I","B","S"," ","C","B","S">>,
      <<"I","B","S"," ","C","B","S"," ","P","E","C"," ","P","E","C">>,
      <<"s","h","o","w"," ","s","h","o","w"," ","I","B","S">>,
      <<"P","E","C">> }

\* "ICMS, PIS e Cofins"
IcmsPisCofins ==
    <<"I","C","M","S",","," ","P","I","S"," ","e"," ","C","o","f","i","n","s">>

GovernoFederal == <<"G","o","v","e","r","n","o"," ","F","e","d","e","r","a","l">>

\* "", "Governo Federal", "Governo Federal e Senado Federal",
\* "Receita Federal do Brasil", "Blog Fiscal", "Portal da Transparencia"
SourceNames ==
    { << >>,
      GovernoFederal,
      <<"G","o","v","e","r","n","o"," ","F","e","d","e","r","a","l"," ","e"," ",
        "S","e","n","a","d","o"," ","F","e","d","e","r","a","l">>,
      <<"R","e","c","e","i","t","a"," ","F","e","d","e","r","a","l"," ","d","o"," ",
        "B","r","a","s","i","l">>,
      <<"B","l","o","g"," ","F","i","s","c","a","l">>,
      <<"P","o","r","t","a","l"," ","d","a"," ","T","r","a","n","s","p","a","r","e^",
        "n","c","i","a">> }

\* every pub_date from MaxAgeDays before the current time to a day after it
PubDates == { Some(t) : t \in 0..(Now + TicksPerDay) }

\* one pub_date for each recency bonus, and no pub_date
PubDateSamples ==
    { None, Some(Now), Some(Now - 3 * TicksPerDay), Some(Now - 10 * TicksPerDay),
      Some(0) }

(***************************************************************************)
(* State: the arguments of a call, and what each operation returned        *)
(* (None until it is called).                                              *)
(***************************************************************************)
VARIABLES title, description, content, source_credibility, source_name,
          now, pub_date, relevance, category, prio, verdict

\* the list of item dicts a batch function is called with (the objects, by
\* position), the list filter_items_list returned (positions of the objects
\* it holds) and the list score_batch returned (None until called)
VARIABLES items, filtered, enhanced

batch == <<items, filtered, enhanced>>

\* the argument of a call of sanitize_search_query, and what it returned
\* (None until called)
VARIABLES raw_query, sanitized

sanitizer == <<raw_query, sanitized>>

\* the SearchRequest of a call of search_content, the response (None until
\* the call is made) and the operations executed on the data store, in order
VARIABLES request, response, db_log

search == <<request, response, db_log>>

\* the tables rss_sources (by id) and rss_feed_items (the rows, in the order
\* they were inserted), the rows whose INSERT met a conflict in the last run
\* of fetch_all_feeds, its FetchFeedsResponse (None before the first run)
\* and the number of runs made
VARIABLES rss_sources, rss_feed_items, insert_conflicts, fetch_response, runs

ingest == <<rss_sources, rss_feed_items, insert_conflicts, fetch_response, runs>>

\* the table user_bookmarks (the rows, in the order they were inserted), the
\* arguments of a call of list_bookmarks and its response (None until the
\* call is made)
VARIABLES user_bookmarks, list_request, listing

bookmarking == <<user_bookmarks, list_request, listing>>

\* the sets authorized_emails and authorized_domains of the global
\* EmailAuthorization, and the last call made on it with the value it
\* returned (None before the first call)
VARIABLES authorized_emails, authorized_domains, auth_call

authorization == <<authorized_emails, authorized_domains, auth_call>>

services == <<ingest, bookmarking, authorization>>

inputs == <<title, description, content, source_credibility, source_name,
            now, pub_date>>

vars == <<title, description, content, source_credibility, source_name,
          now, pub_date, relevance, category, prio, verdict, batch, sanitizer, search,
          services>>

NothingReturned ==
    /\ relevance = None
    /\ category = None
    /\ prio = None
    /\ verdict = None

\* no batch call
NoBatch ==
    /\ items = << >>
    /\ filtered = None
    /\ enhanced = None

\* a request that is never sent
NoRequest ==
    [query |-> <<"a">>, filters |-> None, page |-> 1, per_page |-> 20,
     sort_by |-> "relevance", sort_order |-> <<"d","e","s","c">>]

\* no call of search_content
NoSearch ==
    /\ request = NoRequest
    /\ response = None
    /\ db_log = << >>

\* the sources registered: two active ones and an inactive one
SourceIds == {1, 2, 3}

\* no run of fetch_all_feeds
NoIngest ==
    /\ rss_sources = [id \in SourceIds |->
            [is_active |-> id # 3, last_fetch_status |-> "pending",
             fetch_count |-> 0, success_count |-> 0]]
    /\ rss_feed_items = << >>
    /\ insert_conflicts = {}
    /\ fetch_response = None
    /\ runs = 0

\* a call of list_bookmarks that is never made
NoListRequest ==
    [tag |-> None, search |-> None, limit |-> 50, offset |-> 0, user_id |-> "u1"]

\* no bookmark and no call of list_bookmarks
NoBookmarking ==
    /\ user_bookmarks = << >>
    /\ list_request = NoListRequest
    /\ listing = None

\* email_auth = EmailAuthorization(), with no call made on it
NoAuthorizationCall ==
    /\ authorized_emails = InitialEmails
    /\ authorized_domains = InitialDomains
    /\ auth_call = None

NoServices == NoIngest /\ NoBookmarking /\ NoAuthorizationCall

\* no call of sanitize_search_query
NoSanitizer ==
    /\ raw_query = << >>
    /\ sanitized = None

\* the characters of the queries: letters, whitespace, and the seven
\* characters the sanitizer looks for
QueryChars == {"a", "b", " ", "\t"} \cup SpecialChars

Queries == UNION { [1..n -> QueryChars] : n \in 0..MaxQueryLen }

\* calls of sanitize_search_query
InitSanitize ==
    /\ title = << >>
    /\ description = << >>
    /\ content = << >>
    /\ source_credibility = DefaultCredibility
    /\ source_name = << >>
    /\ now = Now
    /\ pub_date = None
    /\ NothingReturned
    /\ NoBatch
    /\ raw_query \in Queries
    /\ sanitized = None
    /\ NoSearch
    /\ NoServices

\* 'a', 'b', 'a b', 'a<b', 'c', and queries without a token: ' ', '<',
\* '!&', '( )'
SearchQueries ==
    { <<"a">>, <<"b">>, <<"a"," ","b">>, <<"a","<","b">>, <<"c">>,
      <<" ">>, <<"<">>, <<"!","&">>, <<"("," ",")">> }

\* the filter sets of the requests
FilterSets ==
    [date_from        : {None, Some(2)},
     date_to          : {None, Some(3)},
     source_ids       : {None, Some({}), Some({1})},
     categories       : {None, Some({"tax_reform"})},
     priorities       : {None, Some({"high"})},
     min_relevance    : {None, Some(0), Some(50)},
     keywords         : {None, Some({"ibs"})},
     exclude_keywords : {None, Some({"pis"})},
     bookmarked_only  : BOOLEAN]

\* calls of search_content: every query, page and sort without filters, and
\* every filter set with two queries
InitSearch ==
    /\ title = << >>
    /\ description = << >>
    /\ content = << >>
    /\ source_credibility = DefaultCredibility
    /\ source_name = << >>
    /\ now = Now
    /\ pub_date = None
    /\ NothingReturned
    /\ NoBatch
    /\ NoSanitizer
    /\ NoServices
    /\ \/ request \in [query : SearchQueries, filters : {None}, page : {1, 2, 3},
                       per_page : {2, 20},
                       sort_by : {"relevance", "date", "priority", "title"},
                       sort_order : {<<"d","e","s","c">>, <<"a","s","c">>, <<"A","S","C">>}]
       \/ request \in [query : {<<"a">>, <<"a"," ","b">>},
                       filters : {Some(f) : f \in FilterSets}, page : {1},
                       per_page : {20}, sort_by : {"relevance"},
                       sort_order : {<<"d","e","s","c">>}]
    /\ response = None
    /\ db_log = << >>

\* the feeds: up to MaxEntries entries
Feeds == UNION { [1..n -> FeedEntries] : n \in 0..MaxEntries }

\* what fetching one source can come to
FetchOutcomes ==
    { [kind |-> "feed", entries |-> f] : f \in Feeds }
    \cup { [kind |-> k, entries |-> << >>] : k \in FetchKinds \ {"feed"} }

\* SELECT id, name, url FROM rss_sources WHERE is_active = true
ActiveSources(sources) == { id \in DOMAIN sources : sources[id].is_active }

\* the orders in which a SELECT without ORDER BY can give the rows
RowOrders(ids) ==
    { order \in [1..Cardinality(ids) -> ids] :
        \A i, j \in 1..Cardinality(ids) : i # j => order[i] # order[j] }

\* runs of fetch_all_feeds over the three sources, starting with an empty
\* rss_feed_items; the first source was fetched twice before, once with
\* success
InitIngest ==
    /\ title = << >>
    /\ description = << >>
    /\ content = << >>
    /\ source_credibility = DefaultCredibility
    /\ source_name = << >>
    /\ now = Now
    /\ pub_date = None
    /\ NothingReturned
    /\ NoBatch
    /\ NoSanitizer
    /\ NoSearch
    /\ NoBookmarking
    /\ NoAuthorizationCall
    /\ rss_sources = [id \in SourceIds |->
          IF id = 1
          THEN [is_active |-> TRUE, last_fetch_status |-> "error",
                fetch_count |-> 2, success_count |-> 1]
          ELSE [is_active |-> id # 3, last_fetch_status |-> "pending",
                fetch_count |-> 0, success_count |-> 0]]
    /\ rss_feed_items = << >>
    /\ insert_conflicts = {}
    /\ fetch_response = None
    /\ runs = 0

\* the tags of a bookmark request
TagLists == { {}, {<<"t">>} }

\* the calls of list_bookmarks: with and without tag and search, a page of
\* 50 and pages of one row
ListRequests ==
    [tag     : {None, Some(<<"t">>)},
     search  : {None, Some(<<"c","b","s">>), Some(<<"l","e","i">>)},
     limit   : {1, 50},
     offset  : {0, 1},
     user_id : Users]

\* bookmarks are created, then listed
InitBookmarks ==
    /\ title = << >>
    /\ description = << >>
    /\ content = << >>
    /\ source_credibility = DefaultCredibility
    /\ source_name = << >>
    /\ now = Now
    /\ pub_date = None
    /\ NothingReturned
    /\ NoBatch
    /\ NoSanitizer
    /\ NoSearch
    /\ NoIngest
    /\ NoAuthorizationCall
    /\ user_bookmarks = << >>
    /\ list_request \in ListRequests
    /\ listing = None

\* the addresses the operations are called with: an initial one, the same
\* with capitals and a leading space, the other initial one, one more of
\* the initial domain, one of another domain, one without a top-level
\* domain, and the empty string
EmailArguments ==
    { <<"f","e","r","n","a","n","d","o","@","f","o","r","v","i","s","m","a","z","a","r","s",".","c","o","m">>,
      <<" ","F","e","r","n","a","n","d","o","@","F","o","r","v","i","s","M","a","z","a","r","s",".","C","O","M">>,
      <<"f","e","r","n","a","n","d","o",".","x","a","v","i","e","r","@","f","o","r","v","i","s","m","a","z","a","r","s",".","c","o","m">>,
      <<"a","n","a","@","f","o","r","v","i","s","m","a","z","a","r","s",".","c","o","m">>,
      <<"b","o","b","@","o","t","h","e","r",".","o","r","g">>,
      <<"b","o","b","@","o","t","h","e","r">>,
      << >> }

\* the domains the operations are called with
DomainArguments ==
    { <<"f","o","r","v","i","s","m","a","z","a","r","s",".","c","o","m">>,
      <<"o","t","h","e","r",".","o","r","g">>,
      <<"O","t","h","e","r",".","O","R","G"," ">>,
      <<"o","t","h","e","r">>,
      << >> }

\* calls on the global EmailAuthorization, as constructed
InitAuthorization ==
    /\ title = << >>
    /\ description = << >>
    /\ content = << >>
    /\ source_credibility = DefaultCredibility
    /\ source_name = << >>
    /\ now = Now
    /\ pub_date = None
    /\ NothingReturned
    /\ NoBatch
    /\ NoSanitizer
    /\ NoSearch
    /\ NoIngest
    /\ NoBookmarking
    /\ NoAuthorizationCall

\* the items of a batch: {'title': 'IBS'}, {'title': 'CBS', 'description':
\* None}, {'title': 'Reforma Tributaria', 'description': 'ICMS, PIS e
\* Cofins', 'pub_date': now}, {'title': 'futebol', 'content': 'comissao'},
\* {'description': 'IBS PEC', 'relevance_score': 99, 'matched_keywords': []}
BatchItems ==
    { [title |-> <<"I","B","S">>],
      [title |-> <<"C","B","S">>, description |-> NoneStr],
      [title |-> <<"R","e","f","o","r","m","a"," ","T","r","i","b","u","t","a/","r","i","a">>,
       description |-> IcmsPisCofins, pub_date |-> Some(Now)],
      [title |-> <<"f","u","t","e","b","o","l">>,
       content |-> <<"c","o","m","i","s","s","a~","o">>],
      [description |-> <<"I","B","S"," ","P","E","C">>, relevance_score |-> 99,
       matched_keywords |-> << >>] }

\* calls of the batch functions on lists of up to MaxBatch items
InitBatch ==
    /\ title = << >>
    /\ description = << >>
    /\ content = << >>
    /\ source_credibility = DefaultCredibility
    /\ source_name = << >>
    /\ now = Now
    /\ pub_date = None
    /\ NothingReturned
    /\ items \in UNION { [1..n -> BatchItems] : n \in 0..MaxBatch }
    /\ filtered = None
    /\ enhanced = None
    /\ NoSanitizer
    /\ NoSearch
    /\ NoServices

\* texts for the relevance scorer and the category classifier
InitScore ==
    /\ title \in Titles
    /\ description \in Descriptions
    /\ content \in Contents
    /\ source_credibility = DefaultCredibility
    /\ source_name = << >>
    /\ now = Now
    /\ pub_date = None
    /\ NothingReturned
    /\ NoBatch
    /\ NoSanitizer
    /\ NoSearch
    /\ NoServices

\* calls of calculate_priority: every credibility with a few dates, and
\* every date with a few credibilities
InitPriority ==
    /\ title = << >>
    /\ description \in Descriptions
    /\ content = << >>
    /\ now = Now
    /\ \/ /\ source_credibility \in 0..100
          /\ source_name \in SourceNames
          /\ pub_date \in PubDateSamples
       \/ /\ source_credibility \in {0, DefaultCredibility, 100}
          /\ source_name \in {<< >>, GovernoFederal}
          /\ pub_date \in PubDates
    /\ NothingReturned
    /\ NoBatch
    /\ NoSanitizer
    /\ NoSearch
    /\ NoServices

\* calls of filter_content; description and content may be left out, and
\* any of the three may be None or blank
InitFilter ==
    /\ \/ /\ title \in Titles
          /\ description \in Descriptions \cup {NoneStr}
          /\ content \in Contents \cup {NoneStr}
       \/ /\ title \in BlankTexts \cup {NoneStr} \cup FilterTitleSamples
          /\ description \in BlankTexts \cup {NoneStr, IcmsPisCofins}
          /\ content \in BlankTexts \cup {NoneStr}
    /\ source_credibility = DefaultCredibility
    /\ source_name = << >>
    /\ now = Now
    /\ pub_date = None
    /\ NothingReturned
    /\ NoBatch
    /\ NoSanitizer
    /\ NoSearch
    /\ NoServices

\* PriorityScorer.calculate_relevance_score(title, description, content)
ScoreRelevance ==
    /\ relevance = None
    /\ relevance' = Some(calculate_relevance_score(title, description, content))
    /\ UNCHANGED <<inputs, category, prio, verdict, batch, sanitizer, search, services>>

\* PriorityScorer.categorize_content(title, description, content)
Categorize ==
    /\ category = None
    /\ category' = Some(categorize_content(title, description, content))
    /\ UNCHANGED <<inputs, relevance, prio, verdict, batch, sanitizer, search, services>>

\* PriorityScorer.calculate_priority(title, description, content,
\*                                   source_credibility, source_name, pub_date)
ClassifyPriority ==
    /\ prio = None
    /\ prio' = Some(calculate_priority(title, description, content,
                                       source_credibility, source_name, now, pub_date))
    /\ UNCHANGED <<inputs, relevance, category, verdict, batch, sanitizer, search, services>>

\* tax_reform_filter.filter_content(title, description, content)
FilterContent ==
    /\ verdict = None
    /\ verdict' = Some(filter_content(title, description, content))
    /\ UNCHANGED <<inputs, relevance, category, prio, batch, sanitizer, search, services>>

\* tax_reform_filter.filter_items_list(items)
FilterItemsList ==
    /\ filtered = None
    /\ LET call == filter_items_list(items)
       IN  /\ items' = call.heap
           /\ filtered' = Some(call.returned)
    /\ UNCHANGED <<inputs, relevance, category, prio, verdict, enhanced, sanitizer, search, services>>

\* PriorityScorer.score_batch(items)
ScoreBatch ==
    /\ enhanced = None
    /\ enhanced' = Some(score_batch(items, now))
    /\ UNCHANGED <<inputs, relevance, category, prio, verdict, items, filtered, sanitizer, search, services>>

\* sanitize_search_query(query)
Sanitize ==
    /\ sanitized = None
    /\ sanitized' = Some(sanitize_search_query(raw_query))
    /\ UNCHANGED <<inputs, relevance, category, prio, verdict, batch, raw_query, search, services>>

\* search_content(request, user); the data store returns the selected rows
\* in any order that agrees with ORDER BY
SearchContent ==
    /\ response = None
    /\ \E rows \in Orderings(SelectedIds(request, sanitize_search_query(request.query),
                                         Caller),
                             request.sort_by, request.sort_order) :
          LET call == search_content(request, Caller,
                                     PageOf(rows, request.page, request.per_page))
          IN  /\ response' = Some(call.response)
              /\ db_log' = db_log \o call.db_log
    /\ UNCHANGED <<inputs, relevance, category, prio, verdict, batch, sanitizer, request, services>>

\* POST /fetch-feeds: one run of fetch_all_feeds
FetchAllFeeds ==
    /\ runs < MaxRuns
    /\ \E order \in RowOrders(ActiveSources(rss_sources)) :
       \E outcomes \in [ActiveSources(rss_sources) -> FetchOutcomes] :
          LET run == fetch_all_feeds(rss_sources, rss_feed_items, order, outcomes, now)
          IN  /\ rss_sources' = run.sources
              /\ rss_feed_items' = run.rows
              /\ insert_conflicts' = run.conflicts
              /\ fetch_response' = Some(run.response)
    /\ runs' = runs + 1
    /\ UNCHANGED <<inputs, relevance, category, prio, verdict, batch, sanitizer, search, bookmarking,
                   authorization>>

\* POST /bookmarks by some user, for a feed item that exists or not
CreateBookmark ==
    /\ listing = None
    /\ \E user_id \in Users, feed_item_id \in 1..(Len(BookmarkFeedItems) + 1), tags \in TagLists :
          LET call == create_bookmark(user_bookmarks, feed_item_id, tags, user_id)
          IN  /\ Len(call.table) <= MaxBookmarks
              /\ user_bookmarks' = call.table
    /\ UNCHANGED <<inputs, relevance, category, prio, verdict, batch, sanitizer, search,
                   ingest, authorization, list_request, listing>>

\* GET /bookmarks
ListBookmarks ==
    /\ listing = None
    /\ \E rows \in RowOrders(SelectedBookmarks(user_bookmarks, list_request.tag,
                                 list_request.search, list_request.user_id)) :
          listing' = Some(list_bookmarks(user_bookmarks, rows, list_request.tag,
                              list_request.search, list_request.limit, list_request.offset,
                              list_request.user_id))
    /\ UNCHANGED <<inputs, relevance, category, prio, verdict, batch, sanitizer, search,
                   ingest, authorization, user_bookmarks, list_request>>

IsEmailAuthorized ==
    /\ \E email \in EmailArguments :
          auth_call' = Some([op |-> "is_email_authorized", argument |-> email,
                             result |-> is_email_authorized(authorized_emails,
                                                            authorized_domains, email)])
    /\ UNCHANGED <<inputs, relevance, category, prio, verdict, batch, sanitizer, search,
                   ingest, bookmarking, authorized_emails, authorized_domains>>

AddAuthorizedEmail ==
    /\ \E email \in EmailArguments :
          LET call == add_authorized_email(authorized_emails, email)
          IN  /\ authorized_emails' = call.emails
              /\ auth_call' = Some([op |-> "add_authorized_email", argument |-> email,
                                    result |-> call.result])
    /\ UNCHANGED <<inputs, relevance, category, prio, verdict, batch, sanitizer, search,
                   ingest, bookmarking, authorized_domains>>

RemoveAuthorizedEmail ==
    /\ \E email \in EmailArguments :
          LET call == remove_authorized_email(authorized_emails, email)
          IN  /\ authorized_emails' = call.emails
              /\ auth_call' = Some([op |-> "remove_authorized_email", argument |-> email,
                                    result |-> call.result])
    /\ UNCHANGED <<inputs, relevance, category, prio, verdict, batch, sanitizer, search,
                   ingest, bookmarking, authorized_domains>>

AddAuthorizedDomain ==
    /\ \E domain \in DomainArguments :
          LET call == add_authorized_domain(authorized_domains, domain)
          IN  /\ authorized_domains' = call.domains
              /\ auth_call' = Some([op |-> "add_authorized_domain", argument |-> domain,
                                    result |-> call.result])
    /\ UNCHANGED <<inputs, relevance, category, prio, verdict, batch, sanitizer, search,
                   ingest, bookmarking, authorized_emails>>

RemoveAuthorizedDomain ==
    /\ \E domain \in DomainArguments :
          LET call == remove_authorized_domain(authorized_domains, domain)
          IN  /\ authorized_domains' = call.domains
              /\ auth_call' = Some([op |-> "remove_authorized_domain", argument |-> domain,
                                    result |-> call.result])
    /\ UNCHANGED <<inputs, relevance, category, prio, verdict, batch, sanitizer, search,
                   ingest, bookmarking, authorized_emails>>

NextScore == ScoreRelevance \/ Categorize

NextPriority == ClassifyPriority

NextFilter == FilterContent

NextBatch == FilterItemsList \/ ScoreBatch

NextSanitize == Sanitize

NextSearch == SearchContent

SpecScore == InitScore /\ [][NextScore]_vars

SpecPriority == InitPriority /\ [][NextPriority]_vars

SpecFilter == InitFilter /\ [][NextFilter]_vars

SpecBatch == InitBatch /\ [][NextBatch]_vars

SpecSanitize == InitSanitize /\ [][NextSanitize]_vars

SpecSearch == InitSearch /\ [][NextSearch]_vars

NextIngest == FetchAllFeeds

SpecIngest == InitIngest /\ [][NextIngest]_vars

NextBookmarks == CreateBookmark \/ ListBookmarks

SpecBookmarks == InitBookmarks /\ [][NextBookmarks]_vars

NextAuthorization ==
    \/ IsEmailAuthorized
    \/ AddAuthorizedEmail
    \/ RemoveAuthorizedEmail
    \/ AddAuthorizedDomain
    \/ RemoveAuthorizedDomain

SpecAuthorization == InitAuthorization /\ [][NextAuthorization]_vars


(***************************************************************************)
(* Properties of calculate_relevance_score (checked under SpecScore).      *)
(***************************************************************************)
KeywordIndices == 1..Len(TAX_REFORM_KEYWORDS)

\* the taxonomy keywords found in the normalized text of the call
MatchedSet ==
    { i \in KeywordIndices :
        IsSubstr(TAX_REFORM_KEYWORDS[i].kw, ScorerFullText(title, description, content)) }

\* those of them that also occur in the lowercased title
MatchedInTitle ==
    { i \in MatchedSet : IsSubstr(TAX_REFORM_KEYWORDS[i].kw, Lower(title)) }

RECURSIVE WeightSum(_)
WeightSum(S) ==
    IF S = {} THEN 0
    ELSE LET i == CHOOSE x \in S : TRUE
         IN  TAX_REFORM_KEYWORDS[i].weight + WeightSum(S \ {i})

\* W + B + T of the call
UncappedScore ==
    LET n == Cardinality(MatchedSet)
    IN  WeightSum(MatchedSet) + (IF n > 1 THEN 5 * n ELSE 0)
        + 20 * Cardinality(MatchedInTitle)

\* C1: calculate_relevance_score returns an integer in [0, 100], however many
\* keywords match and however many of them also occur in the title.
C1_ScoreInRange == relevance # None => Get(relevance) \in 0..100

\* a call where three or more keywords match, two or more of them in the
\* title, and the sum is over 100
C1_Witness ==
    /\ relevance # None
    /\ Cardinality(MatchedSet) >= 3
    /\ Cardinality(MatchedInTitle) >= 2
    /\ UncappedScore > 100

\* C2: the score is min(100, W + B + T): W the sum of the weights of the n
\* distinct matched keywords, B = 5n when n > 1 and 0 otherwise, T = 20 for
\* each matched keyword that also occurs in the lowercased title.
C2_ScoreFormula == relevance # None => Get(relevance) = Min(100, UncappedScore)

\* a call with several matches, one of them in the title, that is not capped
C2_Witness ==
    /\ relevance # None
    /\ Cardinality(MatchedSet) > 1
    /\ MatchedInTitle # {}
    /\ MatchedInTitle # MatchedSet
    /\ UncappedScore <= 100
    /\ Get(relevance) = UncappedScore

\* C3: every keyword of TAX_REFORM_KEYWORDS that is a case-insensitive
\* substring of title + description + content is matched by
\* calculate_relevance_score (so none, 'pec 45' and 'pec 110' included, is
\* unmatchable after the normalization).
C3_EveryKeywordMatchable ==
    relevance # None =>
        \A i \in KeywordIndices :
            IsSubstr(TAX_REFORM_KEYWORDS[i].kw, Lower(Combine(title, description, content)))
                => i \in MatchedSet

(***************************************************************************)
(* Properties of calculate_priority (checked under SpecPriority).          *)
(***************************************************************************)
FEq(x, y) == FGeq(x, y) /\ FGeq(y, x)

Levels == {"high", "medium", "low"}

Rank(level) == IF level = "high" THEN 3 ELSE IF level = "medium" THEN 2 ELSE 1

\* relevance * source_multiplier * (0.7 + (source_credibility / 100) * 0.6)
\* + recency_bonus in the real numbers, times 100000 (which makes it an integer)
ExactFinalScoreE5(p) ==
    p.relevance * p.source_multiplier * (700 + 6 * source_credibility)
    + p.recency_bonus * 100000

\* C4: final_score = relevance * source_multiplier * credibility_factor +
\* recency_bonus with credibility_factor = 0.7 + (source_credibility/100)*0.6;
\* the result is 'high' exactly when final_score >= 80, 'medium' exactly when
\* 50 <= final_score < 80 and 'low' otherwise (80 and 50 inclusive), and it is
\* always one of the three levels.
C4_PriorityByFinalScore ==
    prio # None =>
        LET p == Get(prio)
            s == ExactFinalScoreE5(p)
        IN  /\ p.priority \in Levels
            /\ p.priority = "high" <=> s >= 80 * 100000
            /\ p.priority = "medium" <=> (50 * 100000 <= s /\ s < 80 * 100000)

\* the same call with source_credibility one higher
WithNextCredibility ==
    calculate_priority(title, description, content, source_credibility + 1,
                       source_name, now, pub_date)

\* C5: with the other arguments and the current time fixed, a higher
\* source_credibility (within 0..100) never gives a lower credibility factor
\* nor a lower priority level.  Stated for one step of credibility; every
\* credibility of 0..100 is a state of SpecPriority, so the steps chain.
C5_MonotoneInCredibility ==
    (prio # None /\ source_credibility < 100) =>
        /\ FGeq(WithNextCredibility.credibility_factor, Get(prio).credibility_factor)
        /\ Rank(WithNextCredibility.priority) >= Rank(Get(prio).priority)

\* a call that one more point of credibility lifts from medium to high
C5_Witness ==
    /\ prio # None
    /\ source_credibility < 100
    /\ Get(prio).priority = "medium"
    /\ WithNextCredibility.priority = "high"
    /\ ~FGeq(Get(prio).credibility_factor, WithNextCredibility.credibility_factor)

\* the SOURCE_MULTIPLIERS entries whose key is in the lowercased source_name
SourceHits ==
    { i \in 1..Len(SOURCE_MULTIPLIERS) :
        IsSubstr(SOURCE_MULTIPLIERS[i].key, Lower(source_name)) }

\* C6: the source multiplier is in [0.8, 1.0]; it is the multiplier of the
\* first SOURCE_MULTIPLIERS entry, in table order, whose key is a substring of
\* the lowercased source_name, and exactly 1.0 when no entry matches.
C6_SourceMultiplier ==
    prio # None =>
        LET m == Get(prio).source_multiplier
        IN  /\ 80 <= m /\ m <= 100
            /\ SourceHits = {} => m = 100
            /\ SourceHits # {} =>
                 m = SOURCE_MULTIPLIERS[CHOOSE i \in SourceHits :
                                           \A j \in SourceHits : i <= j].hundredths

\* a source name holding two keys with different multipliers
C6_Witness ==
    /\ prio # None
    /\ \E i, j \in SourceHits :
          /\ i < j
          /\ SOURCE_MULTIPLIERS[i].hundredths # SOURCE_MULTIPLIERS[j].hundredths
          /\ Get(prio).source_multiplier = SOURCE_MULTIPLIERS[i].hundredths

\* the age of the entry in whole days: the d with d days <= now - pub_date < d + 1 days
AgeInWholeDays ==
    CHOOSE d \in (0 - 1)..MaxAgeDays :
        /\ d * TicksPerDay <= now - Get(pub_date)
        /\ now - Get(pub_date) < (d + 1) * TicksPerDay

\* C7: the recency bonus is 10 when the age in whole days is <= 1, 5 when it
\* is <= 7, 2 when it is <= 30 and 0 otherwise, and no older pub_date gets a
\* larger bonus.
C7_RecencyBonus ==
    (prio # None /\ pub_date # None) =>
        LET b == Get(prio).recency_bonus
        IN  /\ b = (IF AgeInWholeDays <= 1 THEN 10
                    ELSE IF AgeInWholeDays <= 7 THEN 5
                    ELSE IF AgeInWholeDays <= 30 THEN 2
                    ELSE 0)
            /\ \A older \in PubDates :
                  Get(older) <= Get(pub_date) => RecencyBonus(now, older) <= b

\* an entry more than one day and less than two days old: one whole day
C7_Witness ==
    /\ prio # None
    /\ pub_date # None
    /\ now - Get(pub_date) > TicksPerDay
    /\ now - Get(pub_date) < 2 * TicksPerDay
    /\ Get(prio).recency_bonus = 10

\* the case of C8: relevance 60, source_credibility 0, multiplier 1.0, no bonus
C8_Case ==
    /\ prio # None
    /\ Get(prio).relevance = 60
    /\ source_credibility = 0
    /\ Get(prio).source_multiplier = 100
    /\ Get(prio).recency_bonus = 0

C8_Factors ==
    /\ FEq(Get(prio).credibility_factor, FDivInt(7, 10))
    /\ FEq(Get(prio).final_score, FFromInt(42))

\* C8 as stated: in that case credibility_factor is 0.7, final_score is 42 and
\* the priority is 'medium'.
C8_ExampleIsMedium == C8_Case => (C8_Factors /\ Get(prio).priority = "medium")

\* C8 as amended: in that case credibility_factor is 0.7, final_score is 42
\* and the priority is 'low' (42 is under the 'medium' threshold of 50).
C8_ExampleIsLow == C8_Case => (C8_Factors /\ Get(prio).priority = "low")

C8_Witness == C8_Case /\ pub_date = None /\ source_name = << >>

(***************************************************************************)
(* Properties of categorize_content (checked under SpecScore).             *)
(***************************************************************************)
CategoryOrder == <<"tax_reform", "legislation", "economy", "regulation">>

KeywordsOfCategory(name) ==
    CATEGORIES[CHOOSE i \in 1..Len(CATEGORIES) : CATEGORIES[i].name = name].keywords

\* some keyword of the category is in the lowercased combined text
CategoryMatches(name) ==
    \E k \in 1..Len(KeywordsOfCategory(name)) :
        IsSubstr(KeywordsOfCategory(name)[k], Lower(Combine(title, description, content)))

\* C9: categorize_content returns one of the five categories: the first of
\* tax_reform, legislation, economy, regulation (in that order) with a keyword
\* in the lowercased combined text, and general if and only if none has one.
C9_FirstMatchingCategory ==
    category # None =>
        LET c == Get(category)
        IN  /\ c \in {"tax_reform", "legislation", "economy", "regulation", "general"}
            /\ c = "general" <=> \A j \in 1..Len(CategoryOrder) :
                                     ~CategoryMatches(CategoryOrder[j])
            /\ \A j \in 1..Len(CategoryOrder) :
                  c = CategoryOrder[j] =>
                      /\ CategoryMatches(c)
                      /\ \A k \in 1..(j - 1) : ~CategoryMatches(CategoryOrder[k])

\* a text with keywords of two categories, classified as the earlier one
C9_Witness ==
    /\ category = Some("economy")
    /\ CategoryMatches("regulation")
    /\ ~CategoryMatches("legislation")

(***************************************************************************)
(* Properties of filter_content (checked under SpecFilter).                *)
(***************************************************************************)
FilterFullText == Combine(OrEmpty(title), OrEmpty(description), OrEmpty(content))

NonBlankInput == Len(Strip(FilterFullText)) > 0

\* some primary keyword occurs, as a whole word, in the normalized text
PrimaryMatched ==
    \E k \in 1..Len(primary_keywords) :
        \E i \in 1..Len(normalize_text(FilterFullText)) :
            MatchesAt(normalize_text(primary_keywords[k]), normalize_text(FilterFullText), i)

\* the number of secondary keywords that occur in the text
SecondaryMatched ==
    Cardinality({ k \in 1..Len(secondary_keywords) :
        \E i \in 1..Len(normalize_text(FilterFullText)) :
            MatchesAt(normalize_text(secondary_keywords[k]), normalize_text(FilterFullText), i) })

\* C10: for a non-blank input, is_relevant is true if and only if a primary
\* keyword matched and the clamped score is >= 15; it is false whenever no
\* primary keyword matched, whatever the secondary matches.
C10_AdmissionRule ==
    (verdict # None /\ NonBlankInput) =>
        /\ Get(verdict).is_relevant <=> (PrimaryMatched /\ Get(verdict).relevance_score >= 15)
        /\ ~PrimaryMatched => ~Get(verdict).is_relevant

\* no primary keyword, three secondary ones, a score that reaches the
\* threshold, and the entry is rejected
C10_Witness ==
    /\ verdict # None
    /\ NonBlankInput
    /\ ~PrimaryMatched
    /\ SecondaryMatched >= 3
    /\ Get(verdict).relevance_score >= 15
    /\ ~Get(verdict).is_relevant

\* the number of places of the normalized text where the keyword stands as
\* a whole word
Occurrences(keyword) ==
    LET text == normalize_text(FilterFullText)
        word == normalize_text(keyword)
    IN  Cardinality({ i \in 1..Len(text) : MatchesAt(word, text, i) })

RECURSIVE TotalOccurrences(_, _)
TotalOccurrences(keywords, k) ==
    IF k > Len(keywords) THEN 0
    ELSE Occurrences(keywords[k]) + TotalOccurrences(keywords, k + 1)

\* how many keywords of the list occur in the text
MatchedCount(keywords) ==
    Cardinality({ k \in 1..Len(keywords) : Occurrences(keywords[k]) > 0 })

\* the three primary terms: 'reforma tributaria' (a-acute), 'ibs', 'cbs'
PrimaryTerms == <<primary_keywords[1], primary_keywords[3], primary_keywords[4]>>

NoSecondaryOrExclusion ==
    /\ MatchedCount(secondary_keywords) = 0
    /\ MatchedCount(exclusion_keywords) = 0

\* C11: each occurrence of a primary term contributes 20 points and the +15
\* bonus is added only when at least two distinct primary terms occur; a
\* text whose only match is one occurrence of one primary term scores 20.
C11_PrimaryTermScoring ==
    (verdict # None /\ NonBlankInput /\ NoSecondaryOrExclusion) =>
        Get(verdict).relevance_score =
            Min(100, 20 * TotalOccurrences(PrimaryTerms, 1)
                     + (IF MatchedCount(PrimaryTerms) >= 2 THEN 15 ELSE 0))

\* the points of the primary keywords: 20 for every occurrence counted under
\* each entry of the list, and 15 when two or more entries matched
PrimaryPart ==
    20 * TotalOccurrences(primary_keywords, 1)
    + (IF MatchedCount(primary_keywords) > 1 THEN 15 ELSE 0)

\* the score before clamping, secondary and exclusion keywords counted once
\* per matched keyword
RawPerKeyword ==
    PrimaryPart + 5 * MatchedCount(secondary_keywords)
                - 10 * MatchedCount(exclusion_keywords)

\* the score before clamping, secondary and exclusion keywords counted once
\* per occurrence
RawPerOccurrence ==
    PrimaryPart + 5 * TotalOccurrences(secondary_keywords, 1)
                - 10 * TotalOccurrences(exclusion_keywords, 1)

\* C12 (as stated): the score adds 5 points for each matched secondary
\* keyword and subtracts 10 for each matched exclusion keyword,
\* independently of how many times the keyword occurs, and is clamped to
\* [0, 100].
C12_PerKeywordScoring ==
    (verdict # None /\ NonBlankInput) =>
        Get(verdict).relevance_score = Max(0, Min(100, RawPerKeyword))

\* C12 (amended): the score adds 5 points for each occurrence of a secondary
\* keyword and subtracts 10 for each occurrence of an exclusion keyword, and
\* is clamped to [0, 100]: 0 when the penalties exceed the positive points,
\* 100 when the sum exceeds 100.
C12_PerOccurrenceScoring ==
    (verdict # None /\ NonBlankInput) =>
        /\ Get(verdict).relevance_score = Max(0, Min(100, RawPerOccurrence))
        /\ Get(verdict).relevance_score \in 0..100
        /\ RawPerOccurrence < 0 => Get(verdict).relevance_score = 0
        /\ RawPerOccurrence > 100 => Get(verdict).relevance_score = 100

\* an exclusion keyword that occurs twice and is charged twice: the
\* penalties exceed the positive points and the score is 0
C12_Witness ==
    /\ verdict # None
    /\ NonBlankInput
    /\ TotalOccurrences(exclusion_keywords, 1) > MatchedCount(exclusion_keywords)
    /\ RawPerOccurrence < 0
    /\ RawPerKeyword > RawPerOccurrence
    /\ Get(verdict).relevance_score = 0

\* a sum above 100, clamped to 100
C12_ClampedAbove ==
    /\ verdict # None
    /\ RawPerOccurrence > 100
    /\ Get(verdict).relevance_score = 100

\* C13: filter_reason is populated if and only if is_relevant is false; for
\* a rejected non-blank input the reason says that no primary keyword was
\* found when none matched, and otherwise states the score that was computed,
\* which is below the threshold.
C13_ReasonIffRejected ==
    verdict # None =>
        /\ (Get(verdict).filter_reason # None) <=> ~Get(verdict).is_relevant
        /\ (NonBlankInput /\ ~Get(verdict).is_relevant) =>
              IF MatchedCount(primary_keywords) = 0
              THEN Get(verdict).filter_reason = <<"No tax reform keywords found">>
              ELSE /\ Get(verdict).filter_reason =
                          <<"Low relevance score: ", Get(verdict).relevance_score>>
                   /\ Get(verdict).relevance_score < 15

\* a text with a primary keyword, rejected for its score
C13_Witness ==
    /\ verdict # None
    /\ NonBlankInput
    /\ MatchedCount(primary_keywords) > 0
    /\ ~Get(verdict).is_relevant
    /\ Get(verdict).filter_reason = <<"Low relevance score: ", 10>>

\* title, description and content are each None, empty or made of spaces,
\* tabs and newlines
AllBlankOrAbsent ==
    \A x \in {title, description, content} :
        x = NoneStr \/ \A i \in 1..Len(x) : x[i] \in {" ", "\t", "\n"}

\* C14: when title, description and content are all empty, blank or absent,
\* filter_content returns is_relevant = false, relevance_score = 0, no
\* matched keywords and the reason 'No content to analyze': whatever the
\* call returned for such arguments is this verdict, never anything else.
C14_BlankVerdict ==
    (AllBlankOrAbsent /\ verdict # None) =>
        verdict = Some([is_relevant      |-> FALSE,
                        relevance_score  |-> 0,
                        matched_keywords |-> << >>,
                        filter_reason    |-> <<"No content to analyze">>])

\* a call with no title, a description of a space and a tab and a content of
\* a newline has returned
C14_Witness ==
    /\ title = NoneStr
    /\ description = <<" ", "\t">>
    /\ content = <<"\n">>
    /\ verdict # None
    /\ Get(verdict).filter_reason = <<"No content to analyze">>

(***************************************************************************)
(* Properties of the batch functions (checked under SpecBatch).            *)
(***************************************************************************)
\* the list filter_items_list returned, as positions of the input list
Returned == Get(filtered)

\* the verdict of filter_content on the item at position i, taken alone
VerdictOf(i) ==
    filter_content(DictGet(items[i], "title", << >>),
                   DictGet(items[i], "description", << >>),
                   DictGet(items[i], "content", << >>))

\* C15: the list filter_items_list returns is sorted by relevance_score in
\* descending order, and two returned items of equal relevance_score are in
\* the same relative order as in the input list.
C15_SortedStable ==
    filtered # None =>
        \A p, q \in 1..Len(Returned) :
            p < q =>
                /\ items[Returned[p]].relevance_score >= items[Returned[q]].relevance_score
                /\ items[Returned[p]].relevance_score = items[Returned[q]].relevance_score
                       => Returned[p] < Returned[q]

\* two items of equal score returned in input order, after an item of
\* higher score that came last in the input
C15_Witness ==
    /\ filtered # None
    /\ Len(items) = 3
    /\ Returned = <<3, 1, 2>>
    /\ items[1] # items[2]
    /\ items[1].relevance_score = items[2].relevance_score
    /\ items[3].relevance_score > items[1].relevance_score

\* C16: filter_items_list returns exactly the input items that filter_content
\* reports relevant, each once, and every returned item carries the
\* relevance_score and matched_keywords filter_content computed for it.
C16_ExactlyTheRelevant ==
    filtered # None =>
        /\ { Returned[p] : p \in 1..Len(Returned) }
               = { i \in 1..Len(items) : VerdictOf(i).is_relevant }
        /\ \A p, q \in 1..Len(Returned) : p # q => Returned[p] # Returned[q]
        /\ \A p \in 1..Len(Returned) :
              /\ items[Returned[p]].relevance_score = VerdictOf(Returned[p]).relevance_score
              /\ items[Returned[p]].matched_keywords = VerdictOf(Returned[p]).matched_keywords

\* a list with a rejected item between two relevant ones, the second of
\* which came with a relevance_score of its own
C16_Witness ==
    /\ filtered # None
    /\ Len(items) = 3
    /\ ~VerdictOf(2).is_relevant
    /\ Returned = <<3, 1>>
    /\ "title" \notin DOMAIN items[3]
    /\ items[3].relevance_score = 25
    /\ Len(items[3].matched_keywords) = 2

\* C17: the batch filter and the batch scorer leave their input entries
\* unchanged: an entry has the same fields and values after the call as
\* before it.
C17_InputsUnchanged == [][items' = items]_vars

(***************************************************************************)
(* Properties of sanitize_search_query (checked under SpecSanitize).       *)
(***************************************************************************)
\* the maximal runs of characters of s that are not separators, in order
TokenStarts(s, separators) ==
    { i \in 1..Len(s) : s[i] \notin separators /\ (i = 1 \/ s[i - 1] \in separators) }

TokenEnd(s, separators, i) ==
    CHOOSE j \in i..Len(s) :
        /\ \A k \in i..j : s[k] \notin separators
        /\ j = Len(s) \/ s[j + 1] \in separators

RECURSIVE TokensFrom(_, _, _)
TokensFrom(s, separators, i) ==
    IF i > Len(s) THEN << >>
    ELSE IF i \in TokenStarts(s, separators)
         THEN <<SubSeq(s, i, TokenEnd(s, separators, i))>>
              \o TokensFrom(s, separators, TokenEnd(s, separators, i) + 1)
         ELSE TokensFrom(s, separators, i + 1)

\* the tokens joined by ' & '
RECURSIVE AndOf(_)
AndOf(tokens) ==
    IF Len(tokens) = 0 THEN << >>
    ELSE IF Len(tokens) = 1 THEN tokens[1]
    ELSE tokens[1] \o <<" ", "&", " ">> \o AndOf(Tail(tokens))

\* the query with the characters < > ( ) & | ! taken out
WithoutSpecial(query) ==
    SelectSeq(query, LAMBDA c : c \notin {"<", ">", "(", ")", "&", "|", "!"})

\* the only special characters of s are '&' between two spaces
OnlyJoiningAmpersands(s) ==
    \A i \in 1..Len(s) :
        s[i] \in {"<", ">", "(", ")", "&", "|", "!"} =>
            /\ s[i] = "&"
            /\ 1 < i /\ i < Len(s)
            /\ s[i - 1] = " " /\ s[i + 1] = " "

NoTokenSurvives ==
    \A i \in 1..Len(request.query) :
        request.query[i] \in {" ", "\t", "\n", "<", ">", "(", ")", "&", "|", "!"}

\* C19: a search whose query sanitizes to an empty token set is rejected
\* with HTTP 400, before the data store is touched: no connection is opened
\* and no query, analytics or history write is executed.
C19_RejectedBeforeDataStore ==
    (response # None /\ NoTokenSurvives) =>
        /\ Get(response).status_code = 400
        /\ db_log = << >>

\* the rows of the corpus that match the query and satisfy every filter
\* that was given; a row without keywords has none of the excluded ones
Satisfying ==
    LET terms == TokensFrom(request.query,
                            {" ", "\t", "\n", "<", ">", "(", ")", "&", "|", "!"}, 1)
        f == Get(request.filters)
        Given(x) == x # None /\ Get(x) # {}
        KeywordsOf(row) == IF row.keywords = None THEN {} ELSE Get(row.keywords)
        DayOf(row) == Get(row.pub_date) \div TicksPerDay
    IN  { id \in 1..Len(FeedItems) :
            LET row == FeedItems[id]
            IN  /\ \A k \in 1..Len(terms) : terms[k] \in row.lexemes
                /\ request.filters # None =>
                      /\ f.date_from # None =>
                            row.pub_date # None /\ DayOf(row) >= Get(f.date_from)
                      /\ f.date_to # None =>
                            row.pub_date # None /\ DayOf(row) <= Get(f.date_to)
                      /\ Given(f.source_ids) => row.source_id \in Get(f.source_ids)
                      /\ Given(f.categories) => row.category \in Get(f.categories)
                      /\ Given(f.priorities) => row.priority \in Get(f.priorities)
                      /\ f.min_relevance # None =>
                            row.relevance_score >= Get(f.min_relevance)
                      /\ Given(f.keywords) => KeywordsOf(row) \cap Get(f.keywords) # {}
                      /\ Given(f.exclude_keywords) =>
                            KeywordsOf(row) \cap Get(f.exclude_keywords) = {}
                      /\ f.bookmarked_only =>
                            [user_id |-> Caller, feed_item_id |-> id] \in UserBookmarks }

\* C20: every record search_content returns matches the sanitized query and
\* satisfies all the filters given, at once, and total_results counts
\* exactly the records that satisfy that conjunction.
C20_ResultsSatisfyFilters ==
    (response # None /\ Get(response).status_code = 200) =>
        /\ \A i \in 1..Len(Get(response).results) :
              Get(response).results[i].id \in Satisfying
        /\ Get(response).total_results = Cardinality(Satisfying)

\* every record returned satisfies the conjunction (the first half of C20)
C20_ReturnedSatisfy ==
    (response # None /\ Get(response).status_code = 200) =>
        \A i \in 1..Len(Get(response).results) :
            Get(response).results[i].id \in Satisfying

\* the rows the query of the request selects, and their number
MatchSet == SelectedIds(request, sanitize_search_query(request.query), Caller)

\* C21: search_content skips (page - 1) * per_page records and returns at
\* most per_page records of the sorted match set, and reports
\* total_pages = ceil(total_results / per_page), which is 0 when nothing
\* matches.
C21_Pagination ==
    (response # None /\ Get(response).status_code = 200) =>
        LET r       == Get(response)
            skipped == (request.page - 1) * request.per_page
        IN  /\ r.total_results = Cardinality(MatchSet)
            /\ Len(r.results) = Max(0, Min(request.per_page, r.total_results - skipped))
            /\ \E sorted \in Orderings(MatchSet, request.sort_by, request.sort_order) :
                  \A i \in 1..Len(r.results) : r.results[i].id = sorted[skipped + i]
            /\ r.total_pages * request.per_page >= r.total_results
            /\ (r.total_pages - 1) * request.per_page < r.total_results
            /\ r.total_results = 0 => r.total_pages = 0

\* the second page of two, of a match set of four records
C21_Witness ==
    /\ response # None
    /\ Get(response).status_code = 200
    /\ request.page = 2
    /\ request.per_page = 2
    /\ Get(response).total_results = 4
    /\ Get(response).total_pages = 2
    /\ Len(Get(response).results) = 2

\* a search that matches nothing: no page
C21_NoMatches ==
    /\ response # None
    /\ Get(response).status_code = 200
    /\ Get(response).total_results = 0
    /\ Get(response).total_pages = 0

\* the sum of the counts of the groups of one facet
RECURSIVE FacetTotal(_)
FacetTotal(groups) ==
    IF groups = {} THEN 0
    ELSE LET g == CHOOSE x \in groups : TRUE
         IN  g.count + FacetTotal(groups \ {g})

\* C22: for every search, with or without filters, the counts of the
\* category facet, of the source facet and of the priority facet each sum
\* to total_results, the number of records the match-plus-filter predicate
\* selects.
C22_FacetsSumToTotal ==
    (response # None /\ Get(response).status_code = 200) =>
        LET r == Get(response)
        IN  /\ FacetTotal(r.facets.categories) = r.total_results
            /\ FacetTotal(r.facets.sources) = r.total_results
            /\ FacetTotal(r.facets.priorities) = r.total_results

\* without filters the facets do sum to total_results
C22_UnfilteredFacetsSum ==
    (response # None /\ Get(response).status_code = 200 /\ request.filters = None) =>
        LET r == Get(response)
        IN  /\ FacetTotal(r.facets.categories) = r.total_results
            /\ FacetTotal(r.facets.sources) = r.total_results
            /\ FacetTotal(r.facets.priorities) = r.total_results

\* the count and the page queries of search_content ran and their
\* connection was closed: matching and ranking succeeded
MatchingSucceeded ==
    /\ Len(db_log) >= 4
    /\ SubSeq(db_log, 1, 4) = <<"connect", "count", "select", "close">>

\* C23: when matching and ranking succeeded, search_content returns the
\* ranked results and the facets, also when record_search_analytics or
\* record_user_search_history raises.
C23_RecordingFailureNotFatal ==
    (response # None /\ MatchingSucceeded) =>
        /\ Get(response).status_code = 200
        /\ Get(response).total_results = Cardinality(MatchSet)
        /\ Get(response).facets = get_search_facets(sanitize_search_query(request.query))

(***************************************************************************)
(* Properties of fetch_all_feeds (checked under SpecIngest).               *)
(***************************************************************************)
\* no two stored rows have the same guid
UniqueGuids ==
    \A i, j \in 1..Len(rss_feed_items) :
        i # j => rss_feed_items[i].guid # rss_feed_items[j].guid

\* the guid of a stored row is a native guid of an entry, or the digest of
\* the row's link and title
KeyedByGuidOrDigest ==
    \A i \in 1..Len(rss_feed_items) :
        \/ rss_feed_items[i].guid \in { e.id : e \in FeedEntries } \ {<< >>}
        \/ rss_feed_items[i].guid = Md5Hex(rss_feed_items[i].link \o rss_feed_items[i].title)

\* C24: across any sequence of fetch_all_feeds runs at most one stored item
\* exists per dedup key (the native guid, or the hash of link+title), and a
\* run leaves every row stored before it unchanged, also when it ingests an
\* entry with the key of that row, and counts in items_added only the rows
\* it added.
C24_Dedup ==
    [][ /\ UniqueGuids'
        /\ KeyedByGuidOrDigest'
        /\ Len(rss_feed_items') >= Len(rss_feed_items)
        /\ SubSeq(rss_feed_items', 1, Len(rss_feed_items)) = rss_feed_items
        /\ Get(fetch_response').items_added = Len(rss_feed_items') - Len(rss_feed_items)
        /\ \A row \in insert_conflicts' : GuidStored(rss_feed_items', row.guid)
      ]_vars

\* a second run brought 'Reforma tributaria' (scored 80, high, tax_reform)
\* under the guid of the stored 'IBS' (60, medium, general), and added
\* nothing
C24_Witness ==
    /\ runs = 2
    /\ Get(fetch_response).items_added = 0
    /\ \E row \in insert_conflicts : \E i \in 1..Len(rss_feed_items) :
          /\ row.guid = rss_feed_items[i].guid
          /\ row.relevance_score = 80 /\ row.priority = "high" /\ row.category = "tax_reform"
          /\ rss_feed_items[i].relevance_score = 60
          /\ rss_feed_items[i].priority = "medium"
          /\ rss_feed_items[i].category = "general"

\* a row keyed by the digest of link and title met a conflict
C24_DigestConflict ==
    \E row \in insert_conflicts : row.guid = Md5Hex(row.link \o row.title)


\* the Content Filter's verdict for a stored row
RowVerdict(row) == filter_content(row.title, row.description, row.content)

\* C25: an ingested feed entry is written to the stored corpus only if the
\* Content Filter's verdict for its title, description and content is
\* is_relevant = true: no stored item was rejected by the filter.
C25_StoredPassedFilter ==
    \A i \in 1..Len(rss_feed_items) : RowVerdict(rss_feed_items[i]).is_relevant

\* what PriorityScorer.score_batch yields for the title, description,
\* content and publication date of a stored row
RowEnhanced(row) ==
    score_batch(<<[title |-> row.title, description |-> row.description,
                   content |-> row.content, pub_date |-> Some(row.pub_date)]>>, now)[1]

\* C26: the relevance_score, priority and category persisted for an
\* ingested feed entry are the values PriorityScorer.score_batch yields for
\* the same title, description, content and publication date.
C26_PersistedAsScored ==
    \A i \in 1..Len(rss_feed_items) :
        /\ rss_feed_items[i].relevance_score = RowEnhanced(rss_feed_items[i]).relevance_score
        /\ rss_feed_items[i].priority = RowEnhanced(rss_feed_items[i]).priority
        /\ rss_feed_items[i].category = RowEnhanced(rss_feed_items[i]).category

\* C27: when fetch_all_feeds finishes, no source it started is left with
\* last_fetch_status = 'processing'.
C27_NoneLeftProcessing ==
    fetch_response # None =>
        \A id \in ActiveSources(rss_sources) :
            rss_sources[id].last_fetch_status \in {"success", "error", "timeout"}


\* C28: for every source success_count <= fetch_count holds after any
\* sequence of fetch_all_feeds runs: a run that ends a source in 'success'
\* has incremented both of its counters by one, and a run that ends it in
\* 'error' or 'timeout' has incremented only its fetch_count.  (Every
\* active source is set to 'processing' by the run, so the status after
\* the run is the one the run gave.)
C28_SuccessAtMostFetch ==
    [][ \A id \in SourceIds :
          /\ rss_sources'[id].success_count <= rss_sources'[id].fetch_count
          /\ (rss_sources[id].is_active /\ rss_sources'[id].last_fetch_status = "success") =>
                /\ rss_sources'[id].success_count = rss_sources[id].success_count + 1
                /\ rss_sources'[id].fetch_count = rss_sources[id].fetch_count + 1
          /\ (rss_sources[id].is_active
                /\ rss_sources'[id].last_fetch_status \in {"error", "timeout"}) =>
                /\ rss_sources'[id].success_count = rss_sources[id].success_count
                /\ rss_sources'[id].fetch_count = rss_sources[id].fetch_count + 1
          /\ ~rss_sources[id].is_active => rss_sources'[id] = rss_sources[id]
      ]_vars

\* the second source was fetched with success once and timed out once
C28_Witness ==
    /\ runs = 2
    /\ rss_sources[2].last_fetch_status = "timeout"
    /\ rss_sources[2].fetch_count = 2
    /\ rss_sources[2].success_count = 1
    /\ rss_sources[1].last_fetch_status = "success"
    /\ rss_sources[1].fetch_count = 4
    /\ rss_sources[1].success_count = 3


(***************************************************************************)
(* Properties of list_bookmarks (checked under SpecBookmarks).             *)
(***************************************************************************)
\* the bookmarks of the caller of list_bookmarks
OwnBookmarks ==
    { i \in 1..Len(user_bookmarks) : user_bookmarks[i].user_id = list_request.user_id }

\* C29: list_bookmarks returns only bookmarks owned by the calling user, and
\* total_count counts only that user's bookmarks, for every combination of
\* the optional tag and search parameters.
C29_OnlyOwnBookmarks ==
    listing # None =>
        /\ \A i \in 1..Len(Get(listing).bookmarks) :
              Get(listing).bookmarks[i].user_id = list_request.user_id
        /\ Get(listing).total_count <= Cardinality(OwnBookmarks)

\* without the search parameter the listing is the caller's own
C29_OwnWithoutSearch ==
    (listing # None /\ ~ParameterGiven(list_request.search)) =>
        /\ \A i \in 1..Len(Get(listing).bookmarks) :
              Get(listing).bookmarks[i].user_id = list_request.user_id
        /\ Get(listing).total_count <= Cardinality(OwnBookmarks)


(***************************************************************************)
(* Properties of EmailAuthorization (checked under SpecAuthorization).     *)
(***************************************************************************)
\* the address is validly formatted and is in the set of emails or has its
\* domain in the set of domains
ListedOrOfDomain(emails, domains, email) ==
    /\ _is_valid_email(NormalizeAddress(email))
    /\ \/ NormalizeAddress(email) \in emails
       \/ _extract_domain(NormalizeAddress(email)) \in domains

\* the last call was this operation and returned True
ReturnedTrue(call, op) ==
    call # None /\ Get(call).op = op /\ Get(call).result

\* C30 (as stated): after remove_authorized_email(e) returns True,
\* is_email_authorized(e) is False.
C30_RemovedIsUnauthorized ==
    ReturnedTrue(auth_call, "remove_authorized_email") =>
        ~is_email_authorized(authorized_emails, authorized_domains, Get(auth_call).argument)

\* C30 (amended): after remove_authorized_email(e) returns True, e is not in
\* the authorized email set until add_authorized_email(e) returns True, and
\* is_email_authorized(e) is True exactly when the domain of e is in the
\* authorized domain set; after any sequence of add and remove operations
\* is_email_authorized(e) returns True exactly when e is a validly
\* formatted address that is in the authorized email set or whose domain is
\* in the authorized domain set.
C30_RemovedUnlessDomain ==
    [][ /\ ReturnedTrue(auth_call', "remove_authorized_email") =>
              /\ NormalizeAddress(Get(auth_call').argument) \notin authorized_emails'
              /\ is_email_authorized(authorized_emails', authorized_domains',
                                     Get(auth_call').argument)
                 <=> _extract_domain(NormalizeAddress(Get(auth_call').argument))
                         \in authorized_domains'
        /\ \A email \in authorized_emails' \ authorized_emails :
              /\ ReturnedTrue(auth_call', "add_authorized_email")
              /\ NormalizeAddress(Get(auth_call').argument) = email
        /\ \A domain \in authorized_domains' \ authorized_domains :
              /\ ReturnedTrue(auth_call', "add_authorized_domain")
              /\ NormalizeAddress(Get(auth_call').argument) = domain
        /\ Get(auth_call').op = "is_email_authorized" =>
              (Get(auth_call').result <=>
                  ListedOrOfDomain(authorized_emails', authorized_domains',
                                   Get(auth_call').argument))
        /\ \A email \in EmailArguments :
              is_email_authorized(authorized_emails', authorized_domains', email)
              <=> ListedOrOfDomain(authorized_emails', authorized_domains', email)
      ]_vars

\* ' Fernando@ForvisMazars.COM' was removed and is still authorized, by its
\* domain
C30_Witness ==
    /\ ReturnedTrue(auth_call, "remove_authorized_email")
    /\ Get(auth_call).argument[1] = " "
    /\ NormalizeAddress(Get(auth_call).argument) \in InitialEmails \ authorized_emails
    /\ is_email_authorized(authorized_emails, authorized_domains, Get(auth_call).argument)

\* 'bob@other.org' was added, then removed, and is no longer authorized
C30_RemovedAndUnauthorized ==
    /\ ReturnedTrue(auth_call, "remove_authorized_email")
    /\ _extract_domain(Get(auth_call).argument) = <<"o","t","h","e","r",".","o","r","g">>
    /\ ~is_email_authorized(authorized_emails, authorized_domains, Get(auth_call).argument)


=============================================================================
